---- MODULE Spec2Model ----
(***************************************************************************)
(* FinGuide: the mobile-money message parser, the daily resampling and     *)
(* feature pipeline (training notebook and Inference Adapter), the scaler  *)
(* fitting discipline and the sliding-window sequence builders.            *)
(*                                                                         *)
(* Text is modelled as sequences of one-character strings, so that the     *)
(* regular expressions of the parser are decided character by character.   *)
(* A timestamp is an integer number of time-of-day slots since             *)
(* 2026-01-01 00:00 (day 0); one day is SlotsPerDay slots.                 *)
(***************************************************************************)
EXTENDS Integers, Sequences, FiniteSets, TLC

VARIABLES
    sms,          \* parser: the raw message handed to parse_momo_sms
    parsed,       \* parser: what parse_momo_sms returned (NotRun before the call)
    txs,          \* pipeline: the transaction list handed to the resampling
    trainDaily,   \* pipeline: outcome of the notebook's daily resampling cell
    inferDaily,   \* pipeline: outcome of FinGuidePredictor._preprocess_user_data
    sklearn,      \* predictor: the scikit-learn build the predictor runs on
    loaded,       \* predictor: the production artifacts as __init__ loaded them
    artifacts,    \* predictor: the artifacts the predictor holds
    history,      \* predictor: the transaction list handed to predict_next_week
    prediction,   \* predictor: what predict_next_week returned
    modelCalls,   \* predictor: number of calls of the external model
    frame,        \* sequence builder: the encoded rows (df / data)
    seqArgs,      \* sequence builder: <<W, H>> = sequence_length, prediction_days
    seqOut,       \* sequence builder: result of create_sequences_with_targets
    expOut,       \* sequence builder: result of create_sequences_exp
    dataset,      \* scaling: the chronologically ordered rows of the notebook
    edited,       \* scaling: the same rows with the Amount of one row changed
    fitted,       \* scaling: scaler states fitted on dataset
    fittedEdited, \* scaling: scaler states fitted on edited
    liquidity,    \* preparation: the Liquidity_Buffer column computed on frame
    nSamples,     \* preparation: the number of sequences or rows handed to a split
    split,        \* preparation: the partitions a split produced
    store,        \* ingest: the rows of the transactions table
    counterparty_mappings, \* ingest: the rows of the counterparty_mappings table
    edits,        \* ingest: the number of other requests served
    requests,     \* ingest: the number of parse-sms requests served
    request,      \* ingest: the last request
    response,     \* ingest: the response to it
    batchParsed,  \* ingest: what batch_parse_sms returned
    goal,         \* savings: the savings goal row
    contributions \* savings: the goal_contributions rows of the goal

vars == <<sms, parsed, txs, trainDaily, inferDaily, sklearn, loaded, artifacts, history,
          prediction,
          modelCalls, frame, seqArgs, seqOut, expOut, dataset, edited,
          fitted, fittedEdited, liquidity, nSamples, split, store,
          counterparty_mappings, edits, requests, request, response,
          batchParsed, goal, contributions>>

parserVars == <<sms, parsed>>
dailyVars == <<txs, trainDaily, inferDaily>>
predictVars == <<sklearn, loaded, artifacts, history, prediction, modelCalls>>
seqVars == <<frame, seqArgs, seqOut, expOut>>
scaleVars == <<dataset, edited, fitted, fittedEdited>>
prepVars == <<liquidity, nSamples, split>>
ingestVars == <<store, counterparty_mappings, edits, requests, request, response,
                batchParsed>>
goalVars == <<goal, contributions>>

\* The value of a result variable before its operation has run.
NotRun == [kind |-> "notrun"]

-----------------------------------------------------------------------------
(* Generic helpers                                                         *)

RECURSIVE SumSeq(_)
SumSeq(s) == IF s = <<>> THEN 0 ELSE Head(s) + SumSeq(Tail(s))

Min2(a, b) == IF a <= b THEN a ELSE b
Max2(a, b) == IF a >= b THEN a ELSE b

SetMin(S) == CHOOSE x \in S : \A y \in S : x <= y
SetMax(S) == CHOOSE x \in S : \A y \in S : x >= y

\* Python slice s[a:b] for 0 <= a, b (both clipped to len(s)).
Slice(s, a, b) ==
    IF Min2(b, Len(s)) <= a THEN <<>> ELSE SubSeq(s, a + 1, Min2(b, Len(s)))

\* Python s[-n:] : the last n elements (all of s when it is shorter).
LastN(s, n) == IF Len(s) <= n THEN s ELSE SubSeq(s, Len(s) - n + 1, Len(s))

StartsWith(s, p) == Len(s) >= Len(p) /\ SubSeq(s, 1, Len(p)) = p

\* Python `sub in s` for strings.
Contains(s, sub) ==
    \E i \in 0..(Len(s) - Len(sub)) : SubSeq(s, i + 1, i + Len(sub)) = sub

\* The ASCII characters str.strip() removes and \s matches: space, tab, line
\* feed, carriage return, form feed, vertical tab (0x0B) and the four
\* separators 0x1C-0x1F.  A text of the model is ASCII.
WhiteSpace ==
    {" ", "\t", "\n", "\r", "\f", "", "", "", "", ""}

\* str.strip()
Strip(s) ==
    LET inked == {i \in 1..Len(s) : s[i] \notin WhiteSpace}
    IN  IF inked = {} THEN <<>> ELSE SubSeq(s, SetMin(inked), SetMax(inked))

-----------------------------------------------------------------------------
(* Message Parser: backend/app/core/momo_parsing.py                        *)
(*                                                                         *)
(* A raw message is a sequence of segments, one per line of the text.  A   *)
(* segment is an envelope token or a clause of one of the notification     *)
(* shapes; a clause renders as                                             *)
(*   received    You have received <amount> RWF from <party> (<paren>) at  *)
(*               <ts>.[ Balance:<balance> RWF.]                            *)
(*   transferred <amount> RWF transferred to <party> (<paren>) at <ts>.    *)
(*               [ Balance:<balance> RWF.]                                 *)
(*   transaction A transaction of <amount> RWF by <party> was completed at *)
(*               <ts>.[ Balance:<balance> RWF.]                            *)
(*   payment     Your payment of <amount> RWF to <party> with token 1.     *)
(*               (tail "token") or ... was completed at <ts>. (tail        *)
(*               "completed") [ Balance:<balance> RWF.]                    *)
(*   other       text that has the shape of no rule.                       *)
(* '.' of a regular expression does not match a line break, so a lazy      *)
(* group never runs from one segment into the next; the separate searches  *)
(* for 'Balance:' and 'completed at' range over the whole cleaned text.    *)

DigitChars == <<"0", "1", "2", "3", "4", "5", "6", "7", "8", "9">>
Digits == {DigitChars[i] : i \in 1..10}
DigitVal(c) == (CHOOSE i \in 1..10 : DigitChars[i] = c) - 1

LowerLetters == <<"a", "b", "c", "d", "e", "f", "g", "h", "i", "j", "k", "l", "m",
                  "n", "o", "p", "q", "r", "s", "t", "u", "v", "w", "x", "y", "z">>
UpperLetters == <<"A", "B", "C", "D", "E", "F", "G", "H", "I", "J", "K", "L", "M",
                  "N", "O", "P", "Q", "R", "S", "T", "U", "V", "W", "X", "Y", "Z">>
IsLower(c) == \E i \in 1..26 : LowerLetters[i] = c
IsUpper(c) == \E i \in 1..26 : UpperLetters[i] = c
ToUpper(c) == IF IsLower(c) THEN UpperLetters[CHOOSE i \in 1..26 : LowerLetters[i] = c] ELSE c
ToLower(c) == IF IsUpper(c) THEN LowerLetters[CHOOSE i \in 1..26 : UpperLetters[i] = c] ELSE c

\* str.upper(), str.lower(), str.title()
StrUpper(s) == [i \in 1..Len(s) |-> ToUpper(s[i])]
StrLower(s) == [i \in 1..Len(s) |-> ToLower(s[i])]
StrTitle(s) ==
    [i \in 1..Len(s) |->
        IF i > 1 /\ (IsLower(s[i - 1]) \/ IsUpper(s[i - 1]))
        THEN ToLower(s[i]) ELSE ToUpper(s[i])]

\* A value that is no text (every element of a text is a single character).
None == <<"None">>
NoDate == "None"

\* Title-casing every name, mixed-case ones included.
TitleCaseAlways(name) == StrTitle(name)

\* _title_case: title-case ALL-CAPS names, leave mixed-case names alone.
title_case(name) ==
    IF name = <<>> THEN name
    ELSE IF name = StrUpper(name) THEN StrTitle(name) ELSE name

\* [\d,] : the characters of an amount group.
AmountChars == Digits \cup {","}

\* ([\d,]+) directly after a literal and directly before ' RWF': the whole token.
AnchoredAmount(tok) == Len(tok) >= 1 /\ \A i \in 1..Len(tok) : tok[i] \in AmountChars

\* ([\d,]+) before ' RWF' with nothing required before it (rule 2): re.search
\* starts the group at the leftmost position from which the token runs in [\d,]
\* up to ' RWF', that is the longest suffix of the token made of [\d,].
RECURSIVE AmountSuffix(_)
AmountSuffix(tok) ==
    IF tok = <<>> \/ tok[Len(tok)] \notin AmountChars THEN <<>>
    ELSE Append(AmountSuffix(SubSeq(tok, 1, Len(tok) - 1)), tok[Len(tok)])

\* ([\d,]+) directly after 'Balance:\s*': the longest prefix made of [\d,].
RECURSIVE AmountPrefix(_)
AmountPrefix(tok) ==
    IF tok = <<>> \/ Head(tok) \notin AmountChars THEN <<>>
    ELSE <<Head(tok)>> \o AmountPrefix(Tail(tok))

RECURSIVE DigitsValue(_)
DigitsValue(ds) ==
    IF ds = <<>> THEN 0 ELSE 10 * DigitsValue(SubSeq(ds, 1, Len(ds) - 1)) + DigitVal(ds[Len(ds)])

\* float(tok.replace(",", "")) for a token of [\d,]+ : ValueError when no digit is left.
ParseFloat(tok) ==
    LET ds == SelectSeq(tok, LAMBDA c : c # ",")
    IN  IF ds = <<>> THEN [ok |-> FALSE, v |-> 0] ELSE [ok |-> TRUE, v |-> DigitsValue(ds)]

\* re.sub(r'[^\d]', '', s)
DigitsOnly(s) == SelectSeq(s, LAMBDA c : c \in Digits)

\* (25\d{9}|07\d{8}) between the parentheses of rule 2.
IsP2Phone(p) ==
    /\ \A i \in 1..Len(p) : p[i] \in Digits
    /\ \/ Len(p) = 11 /\ SubSeq(p, 1, 2) = <<"2", "5">>
       \/ Len(p) = 10 /\ SubSeq(p, 1, 2) = <<"0", "7">>

\* "0" + phone[-9:] if not phone.startswith("07") else phone
LocalPhone(phone) ==
    IF StartsWith(phone, <<"0", "7">>) THEN phone ELSE <<"0">> \o LastN(phone, 9)

EnvelopeShapes == {"ussd", "txid", "en", "yello", "download"}

\* Lines 24-37: strip the carrier envelope. The USSD/TxId wrappers and closing
\* tags are removed wherever they are, the greeting only at the start of the
\* stripped text, and everything from 'Download MoMo' on is cut.
RECURSIVE CutAtDownload(_)
CutAtDownload(text) ==
    IF text = <<>> \/ Head(text).shape = "download" THEN <<>>
    ELSE <<Head(text)>> \o CutAtDownload(Tail(text))

Clean(text) ==
    LET unwrapped == SelectSeq(text, LAMBDA g : g.shape \notin {"ussd", "txid", "en"})
        greeted == IF unwrapped # <<>> /\ Head(unwrapped).shape = "yello"
                   THEN Tail(unwrapped) ELSE unwrapped
    IN  CutAtDownload(greeted)

\* The shape tests of the four rules on one segment.
MatchesP1(g) == g.shape = "received" /\ AnchoredAmount(g.amount)
                /\ g.paren # <<>> /\ \A i \in 1..Len(g.paren) : g.paren[i] # ")"
MatchesP2(g) == g.shape = "transferred" /\ AmountSuffix(g.amount) # <<>> /\ IsP2Phone(g.paren)
MatchesP3(g) == g.shape = "transaction" /\ AnchoredAmount(g.amount)
MatchesP4(g) == g.shape = "payment" /\ AnchoredAmount(g.amount)

\* re.search: the leftmost segment of the text the rule matches (0: no match).
FirstP1(text) == IF \E i \in 1..Len(text) : MatchesP1(text[i])
                 THEN SetMin({i \in 1..Len(text) : MatchesP1(text[i])}) ELSE 0
FirstP2(text) == IF \E i \in 1..Len(text) : MatchesP2(text[i])
                 THEN SetMin({i \in 1..Len(text) : MatchesP2(text[i])}) ELSE 0
FirstP3(text) == IF \E i \in 1..Len(text) : MatchesP3(text[i])
                 THEN SetMin({i \in 1..Len(text) : MatchesP3(text[i])}) ELSE 0
FirstP4(text) == IF \E i \in 1..Len(text) : MatchesP4(text[i])
                 THEN SetMin({i \in 1..Len(text) : MatchesP4(text[i])}) ELSE 0

\* re.search(r'Balance:\s*([\d,]+)', clean): the first Balance field of the text
\* that starts with a digit or a comma; <<>> when there is none.
HasBalance(g) == g.shape \notin EnvelopeShapes /\ AmountPrefix(g.balance) # <<>>
BalanceToken(text) ==
    IF \E i \in 1..Len(text) : HasBalance(text[i])
    THEN AmountPrefix(text[SetMin({i \in 1..Len(text) : HasBalance(text[i])})].balance)
    ELSE <<>>

\* re.search(r'completed at ([\d-]+ [\d:]+)', clean): the first 'completed at'
\* of the text, whichever segment it is in.
HasCompletedAt(g) == \/ g.shape = "transaction"
                     \/ g.shape = "payment" /\ g.tail = "completed"
CompletedAt(text) ==
    IF \E i \in 1..Len(text) : HasCompletedAt(text[i])
    THEN text[SetMin({i \in 1..Len(text) : HasCompletedAt(text[i])})].ts
    ELSE NoDate

Unparseable == [kind |-> "none"]
Raised(e) == [kind |-> "raise", error |-> e]

\* Lines 39-48, then the fields a rule sets; balance 0.0 when no Balance field.
Record(raw, date, amount, type, category, name, phone, bal) ==
    [kind |-> "record", date |-> date, amount |-> amount, type |-> type,
     category |-> category, party_name |-> name, party_phone |-> phone,
     balance |-> bal, raw_text |-> raw]

\* Lines 107-113: category of rule 3 from the lower-cased party.
P3Category(party) ==
    LET pl == StrLower(party)
    IN  IF Contains(pl, <<"d", "a", "t", "a", " ", "b", "u", "n", "d", "l", "e">>)
           \/ Contains(pl, <<"a", "i", "r", "t", "i", "m", "e">>)
        THEN "airtime_data"
        ELSE IF Contains(pl, <<"m", "o", "b", "i", "l", "e", " ", "m", "o", "n", "e", "y",
                               " ", "r", "w", "a", "n", "d", "a">>)
        THEN "other"
        ELSE "utilities"

\* Lines 134-140: category of rule 4 from the lower-cased party.
P4Category(party) ==
    LET pl == StrLower(party)
    IN  IF Contains(pl, <<"m", "o", "k", "a", "s", "h">>) THEN "savings"
        ELSE IF Contains(pl, <<"e", "j", "o", " ", "h", "e", "z", "a">>) THEN "ejo_heza"
        ELSE "other"

\* The balance part shared by the four rules: float() of the Balance group.
BalanceOf(text) ==
    IF BalanceToken(text) = <<>> THEN [ok |-> TRUE, v |-> 0] ELSE ParseFloat(BalanceToken(text))

\* (25\d{9}|07\d{8}) as the source writes it.
P2PhoneGroup(g) == g.paren

\* Rule 1, lines 53-69.
ParseP1(raw, text, g) ==
    LET amt == ParseFloat(g.amount)
        digits == DigitsOnly(g.paren)
        phone == IF Len(digits) >= 9 THEN LocalPhone(digits) ELSE None
        bal == BalanceOf(text)
    IN  IF ~amt.ok \/ ~bal.ok THEN Raised("ValueError")
        ELSE Record(raw, g.ts, amt.v, "income", "other_income",
                    title_case(Strip(g.party)), phone, bal.v)

\* Rule 2, lines 73-88.
ParseP2(raw, text, g) ==
    LET amt == ParseFloat(AmountSuffix(g.amount))
        bal == BalanceOf(text)
    IN  IF ~amt.ok \/ ~bal.ok THEN Raised("ValueError")
        ELSE Record(raw, g.ts, amt.v, "expense", "transfer_out",
                    title_case(Strip(g.party)), LocalPhone(P2PhoneGroup(g)), bal.v)

\* Rule 3, lines 94-114.
ParseP3(raw, text, g) ==
    LET amt == ParseFloat(g.amount)
        party == Strip(g.party)
        bal == BalanceOf(text)
    IN  IF ~amt.ok \/ ~bal.ok THEN Raised("ValueError")
        ELSE Record(raw, g.ts, amt.v, "expense", P3Category(party),
                    title_case(party), None, bal.v)

\* Rule 4, lines 119-141.
ParseP4(raw, text, g) ==
    LET amt == ParseFloat(g.amount)
        party == Strip(g.party)
        bal == BalanceOf(text)
    IN  IF ~amt.ok \/ ~bal.ok THEN Raised("ValueError")
        ELSE Record(raw, CompletedAt(text), amt.v, "expense", P4Category(party),
                    title_case(party), None, bal.v)

\* parse_momo_sms, lines 11-143: the cascade, first matching rule wins.
parse_momo_sms(raw) ==
    IF raw = <<>> THEN Unparseable
    ELSE LET text == Clean(raw)
         IN  IF FirstP1(text) # 0 THEN ParseP1(raw, text, text[FirstP1(text)])
             ELSE IF FirstP2(text) # 0 THEN ParseP2(raw, text, text[FirstP2(text)])
             ELSE IF FirstP3(text) # 0 THEN ParseP3(raw, text, text[FirstP3(text)])
             ELSE IF FirstP4(text) # 0 THEN ParseP4(raw, text, text[FirstP4(text)])
             ELSE Unparseable

-----------------------------------------------------------------------------
(* Calendar: pandas DatetimeIndex fields of a timestamp                    *)

\* Time-of-day slots per calendar day: the granularity of a timestamp.
SlotsPerDay == 2

\* timedelta(days=n) / freq='D'
Days(n) == n * SlotsPerDay

\* Timestamp.date(): the calendar day of a timestamp, and its time of day.
DayOf(ts) == ts \div SlotsPerDay
SlotOf(ts) == ts % SlotsPerDay

\* Day 0 is Thursday 2026-01-01; 2025, 2026 and 2027 have 365 days.
DayOfWeek(ts) == (DayOf(ts) + 3) % 7
MonthStarts == <<0, 31, 59, 90, 120, 151, 181, 212, 243, 273, 304, 334, 365>>
DayOfYear(ts) == DayOf(ts) % 365
MonthOf(ts) ==
    CHOOSE m \in 1..12 : MonthStarts[m] <= DayOfYear(ts) /\ DayOfYear(ts) < MonthStarts[m + 1]
DayOfMonth(ts) == DayOfYear(ts) - MonthStarts[MonthOf(ts)] + 1

-----------------------------------------------------------------------------
(* Daily Aggregator and Feature Encoder                                    *)
(*   training:  ML/expense_prediction.py, the df_daily cell (2513-2550)    *)
(*   inference: FinGuidePredictor._preprocess_user_data (41-124)           *)
(* A transaction is [ts, amount, type, category].  A float that is a mean  *)
(* is kept exact as [num, den].                                            *)

\* pd.date_range(start, end, freq='D'): start, start + 1 day, ... up to end.
date_range(start, end) ==
    IF end < start THEN <<>>
    ELSE [k \in 1..((end - start) \div Days(1) + 1) |-> start + Days(k - 1)]

\* Index.is_unique of the frame indexed by the transactions' timestamps.
IndexIsUnique(transactions) ==
    \A i, j \in 1..Len(transactions) :
        transactions[i].ts = transactions[j].ts => i = j

\* DataFrame.reindex(range) on a unique index, then the three fillna calls: the
\* row of the transaction whose timestamp EQUALS the label, else the defaults.
ReindexFilled(transactions, range) ==
    [k \in 1..Len(range) |->
        IF \E i \in 1..Len(transactions) : transactions[i].ts = range[k]
        THEN LET t == transactions[CHOOSE i \in 1..Len(transactions) :
                                       transactions[i].ts = range[k]]
             IN  [Date |-> range[k], Amount |-> t.amount, Category |-> t.category,
                  Type |-> t.type]
        ELSE [Date |-> range[k], Amount |-> 0, Category |-> "No_Transaction",
              Type |-> "None"]]

\* Series.rolling(7, min_periods=1).mean() at row k (1-based).
RollingMean7(rows, k) ==
    [num |-> SumSeq([j \in 1..Min2(k, 7) |-> rows[k - Min2(k, 7) + j].Amount]),
     den |-> Min2(k, 7)]

\* Notebook line 2535-2537 and line 2540-2543.
TrainPaydayProximity(d) == IF d \in {1, 2, 15, 16} THEN 1 ELSE 0
TrainIsEssential(c) ==
    IF c \in {"Groceries", "Health", "Utilities", "Transportation", "Insurance"} THEN 1 ELSE 0

\* Inference lines 76-78 and 81-84.
InferPaydayProximity(d) == IF d \in {1, 2, 28, 29, 30, 15} THEN 1 ELSE 0
InferIsEssential(c) == IF c \in {"Groceries", "Utilities", "Transport", "Rent"} THEN 1 ELSE 0

\* The feature columns added to the resampled rows by the training cell.
TrainFeatures(rows) ==
    [k \in 1..Len(rows) |->
        [Date |-> rows[k].Date, Amount |-> rows[k].Amount,
         Category |-> rows[k].Category, Type |-> rows[k].Type,
         Day_of_Week |-> DayOfWeek(rows[k].Date),
         Day_of_Month |-> DayOfMonth(rows[k].Date),
         Month |-> MonthOf(rows[k].Date),
         Is_Weekend |-> IF DayOfWeek(rows[k].Date) >= 5 THEN 1 ELSE 0,
         Is_Payday_Proximity |-> TrainPaydayProximity(DayOfMonth(rows[k].Date)),
         Is_Essential |-> TrainIsEssential(rows[k].Category),
         Liquidity_Buffer |-> RollingMean7(rows, k)]]

\* The feature columns added by _preprocess_user_data, step C.
InferFeatures(rows) ==
    [k \in 1..Len(rows) |->
        [Date |-> rows[k].Date, Amount |-> rows[k].Amount,
         Category |-> rows[k].Category, Type |-> rows[k].Type,
         Day_of_Week |-> DayOfWeek(rows[k].Date),
         Day_of_Month |-> DayOfMonth(rows[k].Date),
         Month |-> MonthOf(rows[k].Date),
         Is_Weekend |-> IF DayOfWeek(rows[k].Date) >= 5 THEN 1 ELSE 0,
         Is_Payday_Proximity |-> InferPaydayProximity(DayOfMonth(rows[k].Date)),
         Is_Essential |-> InferIsEssential(rows[k].Category),
         Liquidity_Buffer |-> RollingMean7(rows, k)]]

Frame(rows) == [kind |-> "frame", rows |-> rows]

\* A date text that pd.to_datetime cannot parse, kept as a value below every
\* timestamp; to_datetime raises ValueError on it.
MalformedDate == Days(0) - 1
HasMalformedDate(transactions) ==
    \E i \in 1..Len(transactions) : transactions[i].ts = MalformedDate

TsOf(transactions) == {transactions[i].ts : i \in 1..Len(transactions)}

\* The training range, line 2518: from the first to the last timestamp.
TrainRange(transactions) ==
    date_range(SetMin(TsOf(transactions)), SetMax(TsOf(transactions)))

\* The df_daily cell: index by Date, reindex on the full range (which raises on
\* duplicate labels), fill, add the features.
df_daily(transactions) ==
    IF transactions = <<>> THEN Raised("ValueError")
    ELSE IF HasMalformedDate(transactions) THEN Raised("ValueError")
    ELSE IF ~IndexIsUnique(transactions) THEN Raised("ValueError")
    ELSE Frame(TrainFeatures(ReindexFilled(transactions, TrainRange(transactions))))

\* The inference range, lines 56-58: the 30 days ending at the last timestamp.
InferRange(transactions) ==
    date_range(SetMax(TsOf(transactions)) - Days(29), SetMax(TsOf(transactions)))

\* _preprocess_user_data steps A-C, lines 46-87 (sort_index does not change what
\* reindex selects); KeyError on an empty list, ValueError on duplicate labels.
preprocess_daily(transactions) ==
    IF transactions = <<>> THEN Raised("KeyError")
    ELSE IF HasMalformedDate(transactions) THEN Raised("ValueError")
    ELSE IF ~IndexIsUnique(transactions) THEN Raised("ValueError")
    ELSE Frame(InferFeatures(ReindexFilled(transactions, InferRange(transactions))))

-----------------------------------------------------------------------------
(* Inference Adapter: backend/app/core/finguide_inference.py               *)
(* A scaled or log-compressed float is kept as the term that computes it,  *)
(* [op, arg]; the external model is a black box answering any output of    *)
(* its shape, or raising.                                                  *)

\* The categories of the notebook's training corpus, as LabelEncoder sorts them.
TrainClasses == <<"Groceries", "Restaurants", "Utilities">>
DailyClasses == <<"Groceries", "No_Transaction", "Restaurants", "Utilities">>

\* Notebook lines 3203-3230: the artifacts of the experiment with the lowest RMSE
\* are saved as the production artifacts; any of the four can win.
\* The data a scaler took its parameters from: the training rows of the
\* notebook, or the data of a later fit.
FittedOnTraining == [kind |-> "training"]
FittedOn(data) == [kind |-> "data", data |-> data]

\* Notebook lines 3203-3230: the artifacts of the experiment with the lowest RMSE
\* are saved as the production artifacts; any of the four can win.  A scaler is
\* its class and the data it was fitted on, the encoder its classes_.
ProductionArtifacts ==
    {[experiment |-> "A", amount_scaler |-> "RobustScaler", log_amount |-> FALSE,
      feature_scaler |-> "RobustScaler", classes |-> TrainClasses,
      amount_fit |-> FittedOnTraining, feature_fit |-> FittedOnTraining],
     [experiment |-> "B", amount_scaler |-> "StandardScaler", log_amount |-> TRUE,
      feature_scaler |-> "StandardScaler", classes |-> TrainClasses,
      amount_fit |-> FittedOnTraining, feature_fit |-> FittedOnTraining],
     [experiment |-> "C", amount_scaler |-> "RobustScaler", log_amount |-> FALSE,
      feature_scaler |-> "RobustScaler", classes |-> DailyClasses,
      amount_fit |-> FittedOnTraining, feature_fit |-> FittedOnTraining],
     [experiment |-> "D", amount_scaler |-> "StandardScaler", log_amount |-> TRUE,
      feature_scaler |-> "StandardScaler", classes |-> DailyClasses,
      amount_fit |-> FittedOnTraining, feature_fit |-> FittedOnTraining]}

ClassSet(art) == {art.classes[i] : i \in 1..Len(art.classes)}

\* LabelEncoder.transform of one label that is among the classes (0-based index).
ClassIndex(art, c) == (CHOOSE i \in 1..Len(art.classes) : art.classes[i] = c) - 1

\* Lines 92-95: a category the encoder does not know becomes 'No_Transaction'.
category_safe(art, c) == IF c \in ClassSet(art) THEN c ELSE "No_Transaction"

\* The term that applies the operations ops to x, first operation innermost.
RECURSIVE TermOf(_, _)
TermOf(ops, x) ==
    IF ops = <<>> THEN x
    ELSE [op |-> ops[Len(ops)], arg |-> TermOf(SubSeq(ops, 1, Len(ops) - 1), x)]

\* Lines 99-103: np.log1p of Amount, then amount_scaler.transform, whichever
\* artifacts were loaded.
AmountEncodeOps(art) == <<"log1p", "amount_scaler.transform">>

\* Lines 152-154: amount_scaler.inverse_transform, then np.expm1, whichever
\* artifacts were loaded.
AmountDecodeOps(art) == <<"amount_scaler.inverse_transform", "expm1">>

\* The notebook's encode of Amount for the experiment the artifacts come from:
\* the scaler on Amount in A and C (lines 2588, 2895), on log1p(Amount) in B
\* and D (lines 2761-2766, 3019-3024).
TrainEncodeOps(art) ==
    IF art.log_amount THEN <<"log1p", "amount_scaler.transform">>
    ELSE <<"amount_scaler.transform">>

\* inverse_transform undoes transform of the same fitted scaler and expm1 undoes
\* log1p; nothing else cancels.
Undoes(later, earlier) ==
    \/ later = "amount_scaler.inverse_transform" /\ earlier = "amount_scaler.transform"
    \/ later = "expm1" /\ earlier = "log1p"

\* A pipeline of operations with every operation that is directly followed by
\* its inverse removed together with that inverse, until none is left.
RECURSIVE Cancel(_)
Cancel(ops) ==
    IF \E i \in 1..(Len(ops) - 1) : Undoes(ops[i + 1], ops[i])
    THEN LET i == CHOOSE j \in 1..(Len(ops) - 1) : Undoes(ops[j + 1], ops[j])
         IN  Cancel(SubSeq(ops, 1, i - 1) \o SubSeq(ops, i + 2, Len(ops)))
    ELSE ops

\* The scaled columns with the first two exchanged.
other_feats_reordered ==
    <<"Day_of_Month", "Day_of_Week", "Month", "Is_Weekend",
      "Is_Payday_Proximity", "Is_Essential", "Liquidity_Buffer">>

\* Lines 106-107: the columns handed to feature_scaler.transform, in this order.
other_feats ==
    <<"Day_of_Week", "Day_of_Month", "Month", "Is_Weekend",
      "Is_Payday_Proximity", "Is_Essential", "Liquidity_Buffer">>

\* Notebook lines 2580-2581 and 2592: the numerical columns of the experiments
\* and the ones scaled by feature_scaler.
numerical_features ==
    <<"Amount", "Day_of_Week", "Day_of_Month", "Month",
      "Is_Weekend", "Is_Payday_Proximity", "Is_Essential", "Liquidity_Buffer">>
other_features == SelectSeq(numerical_features, LAMBDA f : f # "Amount")

\* Notebook line 2610: the columns of one row of a training sequence, and lines
\* 2688-2689: the model's numerical input is all of them but the last, the
\* category input the last.
SequenceColumns == <<"Amount_Scaled">> \o other_features \o <<"Category_Encoded">>
TrainNumericalColumns == SubSeq(SequenceColumns, 1, Len(SequenceColumns) - 1)

\* Lines 99-115: one row of X_numerical, np.hstack of Amount_Scaled and the
\* scaled other_feats.
NumericalRow(art, r) ==
    <<TermOf(AmountEncodeOps(art), r.Amount)>>
    \o [j \in 1..Len(other_feats) |->
           [op |-> "feature_scaler.transform", arg |-> r[other_feats[j]]]]

\* The scikit-learn the predictor runs on is not fixed by the repository; what
\* differs between builds is whether transform raises ValueError when the
\* column names of the frame are not those the scaler was fitted on (1.2 and
\* later) or goes on (earlier builds).
SklearnBuilds == {"names_enforced", "names_not_enforced"}

\* The column the amount scaler of the artifacts was fitted on: Amount in A and
\* C (notebook lines 2588, 2895), Amount_Log in B and D (2766, 3026).
AmountFeatureName(art) == IF art.log_amount THEN "Amount_Log" ELSE "Amount"

\* Line 96: LabelEncoder.transform raises ValueError on a label that is not a
\* class.
EncoderRaises(art, daily) ==
    \E k \in 1..Len(daily.rows) :
        category_safe(art, daily.rows[k].Category) \notin ClassSet(art)

\* Line 103: the frame handed to amount_scaler.transform has the one column
\* Amount_Log.  (Line 108 hands feature_scaler the columns it was fitted on.)
AmountScalerRaises(build, art) ==
    build = "names_enforced" /\ AmountFeatureName(art) # "Amount_Log"

\* _preprocess_user_data, lines 41-124: steps A-C, then encoding, scaling and
\* the tensors.
preprocess_user_data(build, art, transactions) ==
    LET daily == preprocess_daily(transactions)
    IN  IF daily.kind = "raise" THEN daily
        ELSE IF EncoderRaises(art, daily) THEN Raised("ValueError")
        ELSE IF AmountScalerRaises(build, art) THEN Raised("ValueError")
        ELSE [kind |-> "tensors",
              X_numerical |-> [k \in 1..Len(daily.rows) |-> NumericalRow(art, daily.rows[k])],
              X_category |-> [k \in 1..Len(daily.rows) |->
                                 ClassIndex(art, category_safe(art, daily.rows[k].Category))]]

\* What np.expm1 of the inverse-scaled amount can be: a finite number, inf when
\* expm1 overflows (an argument above 709.78), nan when the model answers nan.
DecodedClasses == {"finite", "inf", "nan"}

\* What model.predict can answer: a scaled amount with the class of its decoded
\* value, the index of the most probable category (one output per class) and a
\* volatility score in tenths.
ModelOutputs(art) ==
    {[amount_scaled |-> a, decoded |-> d, top_category_idx |-> c, volatility |-> v] :
        a \in {0, 1}, d \in DecodedClasses, c \in 0..(Len(art.classes) - 1),
        v \in {2, 8}}

\* Lines 131-135.
Warmup ==
    [status |-> "warmup",
     message |-> "Need more data (at least 15 days) for accurate AI predictions."]

\* The exception leaving predict_next_week instead of being answered.
ErrorPropagates(e) == Raised(e)

\* Lines 173-174.
ErrorResult(e) == [status |-> "error", message |-> e]

\* _generate_nudge, lines 176-178: the text names the category and int(amount);
\* int() raises OverflowError on inf and ValueError on nan.
generate_nudge(category, amount, decoded) ==
    IF decoded = "inf" THEN Raised("cannot convert float infinity to integer")
    ELSE IF decoded = "nan" THEN Raised("cannot convert float NaN to integer")
    ELSE [kind |-> "text", category |-> category, amount |-> [op |-> "int", arg |-> amount]]

\* Lines 145-171: the user response decoded from the model's answer out, whose
\* decoded amount is finite.  The volatility is in tenths, so the confidence
\* score (1 - volatility) * 100 is whole and round(.., 1) leaves it.
SuccessResult(art, out) ==
    LET pred_amount_rwf == TermOf(AmountDecodeOps(art), out.amount_scaled)
        top_category_name == art.classes[out.top_category_idx + 1]
    IN  [status |-> "success",
         forecast |->
             [horizon |-> "7_days",
              total_amount_rwf |-> [op |-> "round2", arg |-> pred_amount_rwf],
              likely_top_expense |-> top_category_name,
              confidence_score |-> (10 - out.volatility) * 10,
              is_high_risk |-> out.volatility > 7],
         nudge |-> generate_nudge(top_category_name, pred_amount_rwf, out.decoded)]

\* Lines 145-174 after model.predict has answered out: the success response, or
\* the error response when building it raises.
DecodedResult(art, out) ==
    LET nudge == generate_nudge(art.classes[out.top_category_idx + 1],
                                TermOf(AmountDecodeOps(art), out.amount_scaled),
                                out.decoded)
    IN  IF nudge.kind = "raise" THEN ErrorResult(nudge.error)
        ELSE SuccessResult(art, out)

\* The data-sufficiency test of predict_next_week, line 131.
MinTransactions == 15
InsufficientData(transactions) == Len(transactions) < MinTransactions

-----------------------------------------------------------------------------
(* Sequence & Label Builder: ML/expense_prediction.py                      *)
(*   create_sequences_with_targets (1543-1599), create_sequences_exp       *)
(*   (2602-2621).  A row of the frame is [Date, Amount, Category_Encoded,  *)
(*   Is_Expense]; the frame is sorted by Date (line 1468).  The volatility *)
(*   label is kept exact as its square, [num, den].                        *)

\* range(len(data) - sequence_length): the start indices i (0-based).
WindowStarts(n, W) == 0..(n - W - 1)

\* The window taken one row late: data[i + 1 : i + 1 + sequence_length].
WindowOneLate(data, i, W) == Slice(data, i + 1, i + W + 1)

\* data[i : i + sequence_length]
Window(data, i, W) == Slice(data, i, i + W)

\* Lines 1566-1572: the positions (1-based) of the rows selected by future_mask
\* for the window starting at i; end_date is the Date of row i + W - 1 (0-based).
FutureIndices(df, i, W, H) ==
    {j \in 1..Len(df) :
        /\ df[j].Date > df[i + W].Date
        /\ df[j].Date <= df[i + W].Date + Days(H)
        /\ df[j].Is_Expense = 1}

\* df[future_mask]: the selected rows in frame order.
RECURSIVE RowsAt(_, _, _)
RowsAt(df, idx, j) ==
    IF j > Len(df) THEN <<>>
    ELSE (IF j \in idx THEN <<df[j]>> ELSE <<>>) \o RowsAt(df, idx, j + 1)
FutureTransactions(df, i, W, H) == RowsAt(df, FutureIndices(df, i, W, H), 1)

AmountsOf(rows) == [k \in 1..Len(rows) |-> rows[k].Amount]
CategoriesOf(rows) == [k \in 1..Len(rows) |-> rows[k].Category_Encoded]

CountOf(xs, c) == Cardinality({k \in 1..Len(xs) : xs[k] = c})

\* Series.mode().iloc[0]: the modes come sorted, so the smallest of the most
\* frequent values.
ModeFirst(xs) ==
    SetMin({xs[k] : k \in {k \in 1..Len(xs) :
                              \A l \in 1..Len(xs) : CountOf(xs, xs[l]) <= CountOf(xs, xs[k])}})

\* Lines 1580-1584.
CategoryTarget(future) ==
    IF Len(future) > 0 THEN ModeFirst(CategoriesOf(future)) ELSE 0

\* Lines 1575.
AmountTarget(future) == IF Len(future) > 0 THEN SumSeq(AmountsOf(future)) ELSE 0

\* Lines 1588-1593, squared: (min(std / mean, 2.0) / 2.0)^2 with the sample
\* standard deviation; std^2 / mean^2 = n (n Q - S^2) / ((n - 1) S^2) for n
\* amounts of sum S and sum of squares Q.  0.5 squared when fewer than 2 rows;
\* 0 when all amounts are 0 (std 0 over mean + 1e-8).
VolatilityTargetSq(future) ==
    LET n == Len(future)
        S == SumSeq(AmountsOf(future))
        Q == SumSeq([k \in 1..n |-> future[k].Amount * future[k].Amount])
    IN  IF n > 1
        THEN IF S = 0 THEN [num |-> 0, den |-> 1]
             ELSE [num |-> Min2(n * (n * Q - S * S), 4 * (n - 1) * S * S),
                   den |-> 4 * (n - 1) * S * S]
        ELSE [num |-> 1, den |-> 4]

\* The k-th (1-based) element of a sorted set of integers, as a sequence.
SortedSeq(S) == SortSeq(CHOOSE f \in [1..Cardinality(S) -> S] : \A a, b \in 1..Cardinality(S) : f[a] = f[b] => a = b,
                        LAMBDA a, b : a < b)

\* create_sequences_with_targets(data, df, sequence_length, prediction_days)
\* with data the rows of df: one sequence and three targets per start index.
create_sequences_with_targets(df, W, H) ==
    LET starts == SortedSeq(WindowStarts(Len(df), W))
    IN  IF \E k \in 1..Len(starts) : starts[k] + W > Len(df)
        THEN Raised("IndexError")
        ELSE [kind |-> "sequences",
              sequences |-> [k \in 1..Len(starts) |-> Window(df, starts[k], W)],
              targets_amount |->
                  [k \in 1..Len(starts) |-> AmountTarget(FutureTransactions(df, starts[k], W, H))],
              targets_category |->
                  [k \in 1..Len(starts) |-> CategoryTarget(FutureTransactions(df, starts[k], W, H))],
              targets_volatility_sq |->
                  [k \in 1..Len(starts) |-> VolatilityTargetSq(FutureTransactions(df, starts[k], W, H))]]

\* range(seq_length, len(df)): the target indices i (0-based).
ExpTargets(n, W) == W..(n - 1)

\* df.iloc[i - seq_length : i]
ExpWindow(df, i, W) == Slice(df, i - W, i)

\* create_sequences_exp(df, seq_length), lines 2602-2621: the window before row i,
\* row i's amount and category as targets, 1 when row i's amount is above the
\* window's mean.
create_sequences_exp(df, W) ==
    LET targets == SortedSeq(ExpTargets(Len(df), W))
    IN  [kind |-> "sequences",
         sequences |-> [k \in 1..Len(targets) |-> ExpWindow(df, targets[k], W)],
         targets_amount |-> [k \in 1..Len(targets) |-> df[targets[k] + 1].Amount],
         targets_category |-> [k \in 1..Len(targets) |-> df[targets[k] + 1].Category_Encoded],
         targets_volatility |->
             [k \in 1..Len(targets) |->
                 IF df[targets[k] + 1].Amount * W
                        > SumSeq(AmountsOf(ExpWindow(df, targets[k], W)))
                 THEN 1 ELSE 0]]

-----------------------------------------------------------------------------
(* Feature Scaling: ML/expense_prediction.py                               *)
(*   baseline: bilstm_scaler (1519-1521), amount_target_scaler (1614-1616),*)
(*   70/30 split of the sequences (1630-1633);                             *)
(*   Experiments A-D: 80/20 split of the rows, scalers fitted on the       *)
(*   training rows (2572-2594, 2755-2772, 2882-2899, 3013-3030).           *)
(*   A fitted state is kept exact: MinMax as (min, max), Robust as four    *)
(*   times (median, IQR), Standard as (n, sum, sum of squares); on log1p   *)
(*   amounts as the term over the sorted training amounts.                 *)

RECURSIVE Gcd(_, _)
Gcd(a, b) == IF b = 0 THEN a ELSE Gcd(b, a % b)

\* The fraction num/den (num >= 0, den > 0) in lowest terms.
Ratio(num, den) == [num |-> num \div Gcd(num, den), den |-> den \div Gcd(num, den)]

SeqSet(xs) == {xs[k] : k \in 1..Len(xs)}

\* MinMaxScaler.fit on one column.
MinMaxFit(xs) ==
    IF xs = <<>> THEN Raised("ValueError")
    ELSE [scaler |-> "MinMaxScaler", data_min |-> SetMin(SeqSet(xs)), data_max |-> SetMax(SeqSet(xs))]

\* Four times numpy's percentile 25 q (linear interpolation) of the sorted s.
Quartile4(s, q) ==
    LET lo == ((Len(s) - 1) * q) \div 4
        r  == ((Len(s) - 1) * q) % 4
    IN  IF r = 0 THEN 4 * s[lo + 1]
        ELSE 4 * s[lo + 1] + r * (s[lo + 2] - s[lo + 1])

\* RobustScaler.fit on one column: center_ the median, scale_ the interquartile
\* range, a zero range replaced by 1.
RobustFit(xs) ==
    IF xs = <<>> THEN Raised("ValueError")
    ELSE LET s == SortSeq(xs, LAMBDA a, b : a < b)
             iqr4 == Quartile4(s, 3) - Quartile4(s, 1)
         IN  [scaler |-> "RobustScaler", center4 |-> Quartile4(s, 2),
              scale4 |-> IF iqr4 = 0 THEN 4 ELSE iqr4]

\* StandardScaler.fit on one column: mean_ and var_ are sum/n and
\* sumsq/n - (sum/n)^2.
StandardFit(xs) ==
    IF xs = <<>> THEN Raised("ValueError")
    ELSE [scaler |-> "StandardScaler", n_samples |-> Len(xs), sum |-> SumSeq(xs),
          sumsq |-> SumSeq([k \in 1..Len(xs) |-> xs[k] * xs[k]])]

\* StandardScaler.fit on np.log1p of one column.
StandardFitLog1p(xs) ==
    IF xs = <<>> THEN Raised("ValueError")
    ELSE [scaler |-> "StandardScaler",
          fit_on |-> [op |-> "log1p", arg |-> SortSeq(xs, LAMBDA a, b : a < b)]]

\* The fit of an experiment's scaler of the given class.
FitScaler(class, log, xs) ==
    IF class = "RobustScaler" THEN RobustFit(xs)
    ELSE IF log THEN StandardFitLog1p(xs) ELSE StandardFit(xs)

\* Lines 1496-1499: 5000 plus the running sum of the signed amounts.
INITIAL_BALANCE == 5000

\* The starting balance plus the signed amounts of every row of the table.
LiquidityOfWholeTable(df, k) ==
    INITIAL_BALANCE
      + SumSeq([j \in 1..Len(df) |->
                   IF df[j].Is_Expense = 1 THEN 0 - df[j].Amount ELSE df[j].Amount])

Liquidity_Buffer(df, k) ==
    INITIAL_BALANCE
      + SumSeq([j \in 1..k |-> IF df[j].Is_Expense = 1 THEN 0 - df[j].Amount ELSE df[j].Amount])

Column(rows, name) == [k \in 1..Len(rows) |-> rows[k][name]]

\* bilstm_scaler.fit over every row of df_bilstm, per column.
bilstm_scaler(df) ==
    [Amount |-> MinMaxFit(Column(df, "Amount")),
     Day_of_Month |-> MinMaxFit([k \in 1..Len(df) |-> DayOfMonth(df[k].Date)]),
     Liquidity_Buffer |-> MinMaxFit([k \in 1..Len(df) |-> Liquidity_Buffer(df, k)])]

\* The Amount column after bilstm_scaler.transform, as numerators over AmountRange.
AmountRange(df) ==
    LET f == MinMaxFit(Column(df, "Amount"))
    IN  IF f.data_max = f.data_min THEN 1 ELSE f.data_max - f.data_min
ScaledAmounts(df) ==
    [k \in 1..Len(df) |->
        [df[k] EXCEPT !.Amount = df[k].Amount - MinMaxFit(Column(df, "Amount")).data_min]]

\* amount_target_scaler.fit over the amount targets of every sequence.
amount_target_scaler(df, W, H) ==
    LET y_amount == create_sequences_with_targets(ScaledAmounts(df), W, H).targets_amount
    IN  IF y_amount = <<>> THEN Raised("ValueError")
        ELSE [scaler |-> "MinMaxScaler",
              data_min |-> Ratio(SetMin(SeqSet(y_amount)), AmountRange(df)),
              data_max |-> Ratio(SetMax(SeqSet(y_amount)), AmountRange(df))]

\* The two scalers of the baseline cells, fitted before the split of line 1630.
FitBaselineScalers(df, W, H) ==
    IF df = <<>> THEN Raised("ValueError")
    ELSE [bilstm_scaler |-> bilstm_scaler(df),
          amount_target_scaler |-> amount_target_scaler(df, W, H)]

\* train_test_split(test_size=0.30, shuffle=False): the test part takes
\* ceil(0.3 m) of the m sequences, the training part the first m - ceil(0.3 m).
BaselineTrainCount(m) == m - ((3 * m + 9) \div 10)

\* The rows a training sequence of the baseline reads: its window and the rows
\* its targets are computed from.
BaselineTrainRows(df, W, H) ==
    UNION {((i + 1)..(i + W)) \cup FutureIndices(df, i, W, H) :
              i \in 0..(BaselineTrainCount(Len(df) - W) - 1)}

\* train_size = int(0.8 * len(df_exp))
train_size(n) == (8 * n) \div 10

\* The table of an experiment: the transaction rows for A and B, the daily rows
\* of df_daily for C and D.
ToTransactions(df) ==
    [k \in 1..Len(df) |->
        [ts |-> df[k].Date, amount |-> df[k].Amount,
         type |-> IF df[k].Is_Expense = 1 THEN "debit" ELSE "credit",
         category |-> TrainClasses[df[k].Category_Encoded + 1]]]

ExperimentTable(art, df) ==
    IF art.classes = DailyClasses
    THEN df_daily(ToTransactions(df))
    ELSE Frame([k \in 1..Len(df) |-> [Date |-> df[k].Date, Amount |-> df[k].Amount]])

\* Whether the table of the experiment has the columns of other_features: the
\* cells 2529-2546 give them to df_daily; df, the table of A and B (lines 2565,
\* 2748), is the file as read at line 659 and has none of them.
HasFeatureColumns(art) == art.classes = DailyClasses

\* The amount scaler and the feature scaler of an experiment, fitted on the
\* first train_size rows of its table (2588-2593, 2766-2771, 2895-2898,
\* 3026-3029).  Fitting on no rows raises ValueError; selecting the columns of
\* other_features from a table without them raises KeyError after the amount
\* scaler has been fitted.
FitExperimentScalers(art, df) ==
    LET table == ExperimentTable(art, df)
    IN  IF table.kind # "frame" THEN table
        ELSE LET train_df == Slice(table.rows, 0, train_size(Len(table.rows)))
                 fitted_amount ==
                     FitScaler(art.amount_scaler, art.log_amount, Column(train_df, "Amount"))
             IN  IF train_df = <<>> THEN Raised("ValueError")
                 ELSE IF ~HasFeatureColumns(art)
                 THEN [kind |-> "raise", error |-> "KeyError",
                       amount_scaler |-> fitted_amount]
                 ELSE [amount_scaler |-> fitted_amount,
                       feature_scaler |->
                           FitScaler(art.feature_scaler, FALSE,
                                     Column(train_df, "Day_of_Month"))]

-----------------------------------------------------------------------------
(* Messages handed to the parser                                           *)

Clause(shape, amount, party, paren, ts, tail, balance) ==
    [shape |-> shape, amount |-> amount, party |-> party, paren |-> paren,
     ts |-> ts, tail |-> tail, balance |-> balance]
Envelope(shape) == Clause(shape, <<>>, <<>>, <<>>, NoDate, "", <<>>)

NameJeanClaude == <<"J", "e", "a", "n", "C", "l", "a", "u", "d", "e", " ", "G", "A", "K", "W", "A", "Y", "A">>
NameMutoni == <<"M", "U", "T", "O", "N", "I", " ", "B", "R", "I", "C", "E", " ", "Q", "U", "E", "R", "C", "Y">>
NameDataBundle == <<"D", "a", "t", "a", " ", "B", "u", "n", "d", "l", "e", " ", "M", "T", "N">>
NameMokash == <<"M", "o", "k", "a", "s", "h", " ", "S", "a", "v", "i", "n", "g", "s">>
NameEsicia == <<"E", "S", "I", "C", "I", "A", " ", "L", "T", "D">>
NameNexventures == <<"N", "E", "X", "V", "E", "N", "T", "U", "R", "E", "S", " ", "L", "t", "d">>
\* The name followed by a second space before '(', as in the comment of line 52.
PartyNexventures == NameNexventures \o <<" ">>
Phone250 == <<"2", "5", "0", "7", "8", "4", "8", "0", "1", "0", "0", "0">>
Phone25Short == <<"2", "5", "0", "7", "8", "4", "8", "0", "1", "0", "0">>
Phone07 == <<"0", "7", "8", "4", "8", "0", "1", "0", "0", "0">>
Phone07Long == <<"0", "7", "8", "4", "8", "0", "1", "0", "0", "0", "1">>
PhoneMasked == <<"*", "*", "*", "*", "*", "*", "*", "*", "*", "7", "2", "6">>
Amt1500 == <<"1", "5", "0", "0">>
Amt2Comma == <<"2", ",", "0", "0", "0">>
Amt20000 == <<"2", "0", "0", "0", "0">>
Amt200 == <<"2", "0", "0">>
AmtZero == <<"0">>
AmtCommas == <<",">>
AmtDecimal == <<"1", "5", "0", "0", ".", "5", "0">>
Bal31135 == <<"3", "1", "1", "3", "5">>
Bal3Comma == <<"3", ",", "0", "0", "0">>
TsFeb4 == "2026-02-04 22:21:22"
TsFeb5 == "2026-02-05 01:30:22"

ReceivedClauses ==
    {Clause("received", a, n, p, TsFeb4, "", b) :
        a \in {Amt20000, Amt2Comma, AmtCommas},
        n \in {NameMutoni, NameJeanClaude, PartyNexventures},
        p \in {PhoneMasked, Phone250, Phone07, Phone07Long}, b \in {<<>>, Bal31135}}
TransferredClauses ==
    {Clause("transferred", a, n, p, TsFeb5, "", b) :
        a \in {Amt1500, Amt2Comma, AmtDecimal}, n \in {NameJeanClaude, NameMutoni},
        p \in {Phone250, Phone25Short, Phone07, PhoneMasked}, b \in {<<>>, Bal3Comma}}
TransactionClauses ==
    {Clause("transaction", a, n, <<>>, TsFeb5, "", b) :
        a \in {Amt200, AmtZero}, n \in {NameDataBundle, NameEsicia, NameMokash},
        b \in {<<>>, Bal31135}}
PaymentClauses ==
    {Clause("payment", Amt2Comma, n, <<>>, IF t = "completed" THEN TsFeb4 ELSE NoDate, t, b) :
        n \in {NameMokash, NameEsicia, NameDataBundle}, t \in {"token", "completed"},
        b \in {<<>>, Bal3Comma}}
OtherClauses == {Clause("other", <<>>, <<>>, <<>>, NoDate, "", <<>>)}

Clauses == ReceivedClauses \cup TransferredClauses \cup TransactionClauses
           \cup PaymentClauses \cup OtherClauses

\* The messages explored: the empty text, every clause alone, bare or in a
\* carrier envelope, and two-line texts of a payment and another clause.
Messages ==
    {<<>>}
    \cup {<<c>> : c \in Clauses}
    \cup {<<Envelope("ussd"), c, Envelope("en")>> : c \in Clauses}
    \cup {<<Envelope("yello"), c, Envelope("download")>> : c \in Clauses}
    \cup {<<c, d>> : c \in PaymentClauses, d \in TransactionClauses \cup TransferredClauses}

IdleParser == sms = <<>> /\ parsed = NotRun
IdleDaily == txs = <<>> /\ trainDaily = NotRun /\ inferDaily = NotRun
IdlePredict ==
    /\ sklearn = NotRun /\ loaded = NotRun /\ artifacts = NotRun
    /\ history = <<>> /\ prediction = NotRun /\ modelCalls = 0
IdleSeq == frame = <<>> /\ seqArgs = <<0, 0>> /\ seqOut = NotRun /\ expOut = NotRun
IdleScale == dataset = <<>> /\ edited = <<>> /\ fitted = NotRun /\ fittedEdited = NotRun
IdlePrep == liquidity = NotRun /\ nSamples = 0 /\ split = NotRun
IdleIngest ==
    /\ store = <<>> /\ counterparty_mappings = {} /\ edits = 0 /\ requests = 0
    /\ request = NotRun /\ response = NotRun /\ batchParsed = NotRun
IdleGoal == goal = NotRun /\ contributions = <<>>

InitParse ==
    /\ sms \in Messages
    /\ parsed = NotRun
    /\ IdleDaily /\ IdlePredict /\ IdleSeq /\ IdleScale
    /\ IdlePrep /\ IdleIngest /\ IdleGoal

\* One call of parse_momo_sms on the message.
Parse ==
    /\ parsed = NotRun
    /\ parsed' = parse_momo_sms(sms)
    /\ UNCHANGED <<sms, dailyVars, predictVars, seqVars, scaleVars,
                 prepVars, ingestVars, goalVars>>

NextParse == Parse

SpecParse == InitParse /\ [][NextParse]_vars

-----------------------------------------------------------------------------
(* Claims about the Message Parser                                         *)

\* The peer-to-peer shape of claim C1: one 'transferred' clause whose number in
\* parentheses is a 12-digit international number 250XXXXXXXXX.
IsP2PInternational(m) ==
    /\ Len(Clean(m)) = 1
    /\ Clean(m)[1].shape = "transferred"
    /\ AnchoredAmount(Clean(m)[1].amount)
    /\ Len(Clean(m)[1].paren) = 12
    /\ SubSeq(Clean(m)[1].paren, 1, 3) = <<"2", "5", "0">>
    /\ \A i \in 1..12 : Clean(m)[1].paren[i] \in Digits

\* C1: parsing '<amount> RWF transferred to <name> (250XXXXXXXXX) at <ts>' returns
\* an expense record with that amount and the phone in the local form 0XXXXXXXXX
\* (the last nine digits after a 0); it does not return Unparseable.
C1_P2PInternationalParsed ==
    (parsed # NotRun /\ IsP2PInternational(sms)) =>
        /\ parsed.kind = "record"
        /\ parsed.type = "expense"
        /\ parsed.amount = ParseFloat(Clean(sms)[1].amount).v
        /\ parsed.party_phone = <<"0">> \o LastN(Clean(sms)[1].paren, 9)

IsRecord(r) == r # NotRun /\ r.kind = "record"

\* C12: every record the parser returns has a strictly positive amount.
C12_AmountStrictlyPositive == IsRecord(parsed) => parsed.amount > 0

\* C13: parse is total: it returns a record or Unparseable and never raises,
\* also for a text of a rule's shape whose amount token has no digit.
C13_ParseIsTotal == parsed # NotRun => parsed.kind \in {"record", "none"}

\* Priority of the rule a segment matches (5: none), in cascade order.
RuleRank(g) ==
    IF MatchesP1(g) THEN 1 ELSE IF MatchesP2(g) THEN 2
    ELSE IF MatchesP3(g) THEN 3 ELSE IF MatchesP4(g) THEN 4 ELSE 5

MatchedRanks(text) == {RuleRank(text[i]) : i \in 1..Len(text)} \ {5}

\* The leftmost segment matched by the highest-priority matching rule.
WinningClause(text) ==
    text[SetMin({i \in 1..Len(text) : RuleRank(text[i]) = SetMin(MatchedRanks(text))})]

\* What the cascade returns for the winning clause alone, as the result for raw.
RuleAlone(raw) ==
    LET alone == parse_momo_sms(<<WinningClause(Clean(raw))>>)
    IN  IF alone.kind = "record" THEN [alone EXCEPT !.raw_text = raw] ELSE alone

\* C14: for a text that matches the shape of more than one rule the result is
\* exactly that of the highest-priority matching rule alone; no field comes from
\* the sentence of a lower-priority rule.
C14_CascadePriority ==
    (parsed # NotRun /\ Cardinality(MatchedRanks(Clean(sms))) >= 2) =>
        parsed = RuleAlone(sms)

TitleMutoni == <<"M", "u", "t", "o", "n", "i", " ", "B", "r", "i", "c", "e", " ", "Q", "u", "e", "r", "c", "y">>

\* The message of the received shape with a balance and a well-formed amount.
IsReceivedWithBalance(m) ==
    /\ Len(Clean(m)) = 1
    /\ Clean(m)[1].shape = "received"
    /\ Clean(m)[1].amount \in {Amt20000, Amt2Comma}
    /\ Clean(m)[1].balance = Bal31135

\* C15: a received message with a balance gives an income record with that
\* amount and balance; an all-upper-case name is title-cased, a mixed-case name
\* is returned as it is.
C15_ReceivedParsed ==
    (parsed # NotRun /\ IsReceivedWithBalance(sms)) =>
        /\ parsed.kind = "record"
        /\ parsed.type = "income"
        /\ parsed.amount = (IF Clean(sms)[1].amount = Amt20000 THEN 20000 ELSE 2000)
        /\ parsed.balance = 31135
        /\ Clean(sms)[1].party = NameMutoni => parsed.party_name = TitleMutoni
        /\ Clean(sms)[1].party = NameJeanClaude => parsed.party_name = NameJeanClaude
        /\ Clean(sms)[1].party = PartyNexventures => parsed.party_name = NameNexventures

\* The spec's literal received message has been parsed, and so has one with a
\* mixed-case name.
C15_Witness ==
    /\ IsRecord(parsed) /\ IsReceivedWithBalance(sms)
    /\ parsed.amount = 20000 /\ parsed.balance = 31135
    /\ parsed.party_name \in {TitleMutoni, NameJeanClaude}
    /\ Clean(sms)[1].paren = PhoneMasked

KeywordData == <<"d", "a", "t", "a">>
KeywordAirtime == <<"a", "i", "r", "t", "i", "m", "e">>
KeywordMokash == <<"m", "o", "k", "a", "s", "h">>

\* C16: for a record of any expense rule, a counterparty containing 'data' or
\* 'airtime' gives the communications category and one containing the name of a
\* savings product gives the savings category.
C16_CategoryByKeyword ==
    (IsRecord(parsed) /\ parsed.type = "expense") =>
        /\ (Contains(StrLower(parsed.party_name), KeywordData)
              \/ Contains(StrLower(parsed.party_name), KeywordAirtime))
                => parsed.category = "airtime_data"
        /\ Contains(StrLower(parsed.party_name), KeywordMokash)
                => parsed.category = "savings"

\* C17: a returned phone is '0' followed by nine digits.
C17_PhoneCanonical ==
    (IsRecord(parsed) /\ parsed.party_phone # None) =>
        /\ Len(parsed.party_phone) = 10
        /\ parsed.party_phone[1] = "0"
        /\ \A i \in 1..Len(parsed.party_phone) : parsed.party_phone[i] \in Digits

\* C23: every record parse returns, whichever rule matched, carries a timestamp
\* taken from the message, a flow direction that is income or expense, an
\* amount and a category; no record has date None.
C23_RecordHasRequiredFields ==
    IsRecord(parsed) =>
        /\ parsed.date # NoDate
        /\ parsed.type \in {"income", "expense"}
        /\ parsed.amount \in Nat
        /\ parsed.category # ""

-----------------------------------------------------------------------------
(* Daily resampling: the two pipelines on one transaction list             *)

\* Longest transaction list handed to the resampling.
MaxTx == 3
\* Calendar day of the earliest transaction: 2026-02-04.
FirstDay == 34

AmountFor(category) == IF category = "Rent" THEN 250 ELSE 100

TxOptions ==
    {[ts |-> Days(FirstDay + d) + slot, amount |-> AmountFor(c), type |-> ty, category |-> c] :
        d \in {0, 1, 29}, slot \in 0..(SlotsPerDay - 1),
        ty \in {"debit", "credit"}, c \in {"Groceries", "Rent"}}

TxLists == UNION {[1..n -> TxOptions] : n \in 1..MaxTx}

InitDaily ==
    /\ txs \in TxLists
    /\ trainDaily = NotRun
    /\ inferDaily = NotRun
    /\ IdleParser /\ IdlePredict /\ IdleSeq /\ IdleScale
    /\ IdlePrep /\ IdleIngest /\ IdleGoal

\* The notebook's daily resampling cell run on the list.
TrainResample ==
    /\ trainDaily = NotRun
    /\ trainDaily' = df_daily(txs)
    /\ UNCHANGED <<txs, inferDaily, parserVars, predictVars, seqVars, scaleVars,
                 prepVars, ingestVars, goalVars>>

\* The Inference Adapter's resampling and feature steps run on the list.
InferResample ==
    /\ inferDaily = NotRun
    /\ inferDaily' = preprocess_daily(txs)
    /\ UNCHANGED <<txs, trainDaily, parserVars, predictVars, seqVars, scaleVars,
                 prepVars, ingestVars, goalVars>>

NextDaily == TrainResample \/ InferResample

SpecDaily == InitDaily /\ [][NextDaily]_vars

-----------------------------------------------------------------------------
(* Claims about the Daily Aggregator and the Feature Encoder               *)

IsFrame(out) == out.kind = "frame"
BucketDays(out) == [k \in 1..Len(out.rows) |-> DayOf(out.rows[k].Date)]
TxDays(transactions) == {DayOf(transactions[i].ts) : i \in 1..Len(transactions)}

\* One bucket per calendar date, consecutive dates, at least one bucket.
GapFree(out) ==
    /\ Len(out.rows) >= 1
    /\ \A k \in 1..(Len(out.rows) - 1) : BucketDays(out)[k + 1] = BucketDays(out)[k] + 1

\* C2: for every non-empty transaction list, in any order, with several
\* transactions on one date or with times of day, each resampling completes and
\* yields exactly one bucket per calendar date of its range, without gaps.
C2_ResampleCompletesGapFree ==
    /\ trainDaily # NotRun => (IsFrame(trainDaily) /\ GapFree(trainDaily))
    /\ inferDaily # NotRun => (IsFrame(inferDaily) /\ GapFree(inferDaily))

\* Sum of the amounts of the debit transactions of calendar day d.
RECURSIVE DebitSum(_, _)
DebitSum(transactions, d) ==
    IF transactions = <<>> THEN 0
    ELSE (IF Head(transactions).type = "debit" /\ DayOf(Head(transactions).ts) = d
          THEN Head(transactions).amount ELSE 0) + DebitSum(Tail(transactions), d)

BucketsAreDebitSums(out) ==
    \A k \in 1..Len(out.rows) :
        /\ out.rows[k].Amount = DebitSum(txs, DayOf(out.rows[k].Date))
        /\ DayOf(out.rows[k].Date) \notin TxDays(txs) =>
              (out.rows[k].Amount = 0 /\ out.rows[k].Category = "No_Transaction")

\* C3: in a completed resampling every bucket's total is the sum of that day's
\* debit amounts (credits excluded, every debit of the day included), and a day
\* without transactions has total 0 and the sentinel category.
C3_BucketTotalIsDebitSum ==
    /\ (trainDaily # NotRun /\ IsFrame(trainDaily)) => BucketsAreDebitSums(trainDaily)
    /\ (inferDaily # NotRun /\ IsFrame(inferDaily)) => BucketsAreDebitSums(inferDaily)

FirstToLast(transactions) ==
    [k \in 1..(SetMax(TxDays(transactions)) - SetMin(TxDays(transactions)) + 1) |->
        SetMin(TxDays(transactions)) + k - 1]

BothFrames ==
    /\ trainDaily # NotRun /\ IsFrame(trainDaily)
    /\ inferDaily # NotRun /\ IsFrame(inferDaily)

\* C6: on the same list the two resamplings give the same ordered bucket dates,
\* every date from the first to the last transaction and no other.
C6_SameBucketDates ==
    BothFrames =>
        /\ BucketDays(trainDaily) = BucketDays(inferDaily)
        /\ BucketDays(trainDaily) = FirstToLast(txs)

SpansWindow(transactions) ==
    SetMax(TxDays(transactions)) - SetMin(TxDays(transactions)) = 29

SameEncoding(a, b) ==
    /\ a.Day_of_Week = b.Day_of_Week
    /\ a.Day_of_Month = b.Day_of_Month
    /\ a.Month = b.Month
    /\ a.Is_Weekend = b.Is_Weekend
    /\ a.Is_Payday_Proximity = b.Is_Payday_Proximity
    /\ a.Is_Essential = b.Is_Essential
    /\ a.Liquidity_Buffer.num * b.Liquidity_Buffer.den
           = b.Liquidity_Buffer.num * a.Liquidity_Buffer.den

\* C7: when the dates of the list span exactly the 30-day window, the unscaled
\* encoded rows of the two pipelines are identical row by row.
C7_SameEncodedRows ==
    (BothFrames /\ SpansWindow(txs)) =>
        /\ Len(trainDaily.rows) = Len(inferDaily.rows)
        /\ \A k \in 1..Min2(Len(trainDaily.rows), Len(inferDaily.rows)) :
              SameEncoding(trainDaily.rows[k], inferDaily.rows[k])

-----------------------------------------------------------------------------
(* Inference Adapter: a user's history grows, then a forecast is asked     *)

\* Longest history handed to predict_next_week.
MaxHistory == 16

\* The histories explored keep one cadence and one category: the step
\* between the first two timestamps is the step between all of them.  The
\* last record of a history may carry a date that cannot be parsed.
Cadences == {0, 1, Days(1), Days(2)}
HistoryCategories == {"Groceries", "Rent", "airtime_data"}

NextTransactions ==
    IF history = <<>>
    THEN {[ts |-> Days(FirstDay), amount |-> AmountFor(c), type |-> "debit", category |-> c] :
             c \in HistoryCategories}
    ELSE IF history[Len(history)].ts = MalformedDate THEN {}
    ELSE {[ts |-> history[Len(history)].ts + step, amount |-> history[1].amount,
           type |-> "debit", category |-> history[1].category] :
             step \in IF Len(history) = 1 THEN Cadences
                      ELSE {history[2].ts - history[1].ts}}
         \cup {[ts |-> MalformedDate, amount |-> history[1].amount,
                type |-> "debit", category |-> history[1].category]}

InitPredict ==
    /\ artifacts \in ProductionArtifacts
    /\ loaded = artifacts
    /\ sklearn \in SklearnBuilds
    /\ history = <<>>
    /\ prediction = NotRun
    /\ modelCalls = 0
    /\ IdleParser /\ IdleDaily /\ IdleSeq /\ IdleScale
    /\ IdlePrep /\ IdleIngest /\ IdleGoal

\* One more transaction of the user is stored.
Ingest ==
    /\ prediction = NotRun
    /\ Len(history) < MaxHistory
    /\ \E t \in NextTransactions : history' = Append(history, t)
    /\ UNCHANGED <<sklearn, loaded, artifacts, prediction, modelCalls, parserVars, dailyVars, seqVars, scaleVars,
                 prepVars, ingestVars, goalVars>>

\* predict_next_week(history), lines 126-174, when the data is insufficient.
PredictWarmup ==
    /\ prediction = NotRun
    /\ InsufficientData(history)
    /\ prediction' = Warmup
    /\ UNCHANGED <<sklearn, loaded, artifacts, history, modelCalls, parserVars, dailyVars, seqVars, scaleVars,
                 prepVars, ingestVars, goalVars>>

\* predict_next_week(history) when preprocessing raises: the model is not called.
PredictPreprocessError ==
    /\ prediction = NotRun
    /\ ~InsufficientData(history)
    /\ preprocess_user_data(sklearn, artifacts, history).kind = "raise"
    /\ prediction' = ErrorResult(preprocess_user_data(sklearn, artifacts, history).error)
    /\ UNCHANGED <<sklearn, loaded, artifacts, history, modelCalls, parserVars, dailyVars, seqVars, scaleVars,
                 prepVars, ingestVars, goalVars>>

\* predict_next_week(history) when the tensors are built: the external model is
\* called and answers, or raises.
PredictModelAnswers ==
    /\ prediction = NotRun
    /\ ~InsufficientData(history)
    /\ preprocess_user_data(sklearn, artifacts, history).kind = "tensors"
    /\ modelCalls' = modelCalls + 1
    /\ \E out \in ModelOutputs(artifacts) : prediction' = DecodedResult(artifacts, out)
    /\ UNCHANGED <<sklearn, loaded, artifacts, history, parserVars, dailyVars, seqVars, scaleVars,
                 prepVars, ingestVars, goalVars>>

PredictModelRaises ==
    /\ prediction = NotRun
    /\ ~InsufficientData(history)
    /\ preprocess_user_data(sklearn, artifacts, history).kind = "tensors"
    /\ modelCalls' = modelCalls + 1
    /\ prediction' = ErrorResult("ExternalModelError")
    /\ UNCHANGED <<sklearn, loaded, artifacts, history, parserVars, dailyVars, seqVars, scaleVars,
                 prepVars, ingestVars, goalVars>>

NextPredict ==
    \/ Ingest
    \/ PredictWarmup
    \/ PredictPreprocessError
    \/ PredictModelAnswers
    \/ PredictModelRaises

SpecPredict == InitPredict /\ [][NextPredict]_vars

-----------------------------------------------------------------------------
(* Claims about the Inference Adapter                                      *)

\* Number of distinct calendar days the history covers.
DaysCovered(transactions) == Cardinality(TxDays(transactions))

\* C4: predict_next_week answers warmup, without calling the external model,
\* whenever the history covers fewer than 15 distinct calendar days, however
\* many transactions it holds; with at least 15 days it leaves warmup.
C4_WarmupByDaysCovered ==
    prediction # NotRun =>
        /\ DaysCovered(history) < MinTransactions =>
              (prediction.status = "warmup" /\ modelCalls = 0)
        /\ DaysCovered(history) >= MinTransactions => prediction.status # "warmup"

\* The history holds a category that is not a class of the saved encoder.
HasUnknownCategory ==
    \E i \in 1..Len(history) : history[i].category \notin ClassSet(artifacts)

\* The errors of a call that come after the encoding of the categories: the
\* external model raises, or the decoded amount is not finite.
LaterErrors ==
    {"ExternalModelError", "cannot convert float infinity to integer",
     "cannot convert float NaN to integer"}

\* C18: with a history of at least the minimum size whose resampling succeeds, a
\* category outside the saved vocabulary is remapped and causes no error result,
\* whichever experiment's encoder was saved.
C18_UnknownCategoryRemapped ==
    (/\ prediction # NotRun
     /\ ~InsufficientData(history)
     /\ preprocess_daily(history).kind = "frame"
     /\ HasUnknownCategory)
        => (prediction.status = "error" => prediction.message \in LaterErrors)

Statuses == {"warmup", "success", "error"}

\* C19: predict_next_week returns a structured result whose status is warmup,
\* success or error; a failure of the preprocessing or of the external model is
\* answered with status error and a message, never with warmup, and never
\* leaves the function as an exception.
C19_StructuredStatus ==
    prediction # NotRun =>
        /\ "status" \in DOMAIN prediction
        /\ prediction.status \in Statuses
        /\ prediction.status = "warmup" <=> InsufficientData(history)
        /\ (~InsufficientData(history)
              /\ preprocess_user_data(sklearn, artifacts, history).kind = "raise")
                => (prediction.status = "error" /\ "message" \in DOMAIN prediction
                      /\ modelCalls = 0)
        /\ prediction.status = "success"
                => (modelCalls = 1 /\ preprocess_user_data(sklearn, artifacts, history).kind = "tensors")
        /\ prediction.status = "error" => "message" \in DOMAIN prediction

\* C20: whichever experiment's artifacts are in production, the amounts of a
\* successful prediction were encoded as the notebook encoded them for that
\* experiment, and the decode of the answer undoes exactly that encode: the
\* scaler inverse first, then expm1 if and only if log1p was applied.
C20_AmountRoundTrip ==
    (prediction # NotRun /\ "status" \in DOMAIN prediction
        /\ prediction.status = "success") =>
        LET daily == preprocess_daily(history)
            tensors == preprocess_user_data(sklearn, artifacts, history)
        IN  /\ \A k \in 1..Len(daily.rows) :
                   tensors.X_numerical[k][1] =
                       TermOf(AmountEncodeOps(artifacts), daily.rows[k].Amount)
            /\ \E out \in ModelOutputs(artifacts) :
                   prediction.forecast.total_amount_rwf.arg =
                       TermOf(AmountDecodeOps(artifacts), out.amount_scaled)
            /\ AmountEncodeOps(artifacts) = TrainEncodeOps(artifacts)
            /\ Cancel(TrainEncodeOps(artifacts) \o AmountDecodeOps(artifacts)) = <<>>

\* C24: the numeric tensor of a prediction has 30 rows of as many features as
\* the rows of the training sequences, in the same order (the scaled amount,
\* then each scaled column of the training order), and the category indices are
\* a separate tensor of 30 integers.
C24_SameFeatureOrder ==
    (prediction # NotRun /\ "status" \in DOMAIN prediction
        /\ prediction.status = "success") =>
        LET daily == preprocess_daily(history)
            tensors == preprocess_user_data(sklearn, artifacts, history)
        IN  /\ Len(tensors.X_numerical) = 30
            /\ Len(tensors.X_category) = 30
            /\ TrainNumericalColumns[1] = "Amount_Scaled"
            /\ \A k \in 1..30 :
                   /\ Len(tensors.X_numerical[k]) = Len(TrainNumericalColumns)
                   /\ tensors.X_numerical[k][1].op = "amount_scaler.transform"
                   /\ \A j \in 2..Len(TrainNumericalColumns) :
                          tensors.X_numerical[k][j] =
                              [op |-> "feature_scaler.transform",
                               arg |-> daily.rows[k][TrainNumericalColumns[j]]]
                   /\ tensors.X_category[k] \in 0..(Len(artifacts.classes) - 1)

\* A prediction has succeeded on a window whose rows differ in the day of the
\* week and the day of the month.
C24_Witness ==
    /\ prediction # NotRun
    /\ "status" \in DOMAIN prediction
    /\ prediction.status = "success"
    /\ \E k \in 1..30 :
          preprocess_daily(history).rows[k].Day_of_Week
              # preprocess_daily(history).rows[k].Day_of_Month

\* A history of sufficient size with a malformed date has been answered with an
\* error result.
C19_Witness ==
    /\ prediction # NotRun
    /\ "status" \in DOMAIN prediction
    /\ prediction.status = "error"
    /\ ~InsufficientData(history)
    /\ HasMalformedDate(history)

-----------------------------------------------------------------------------
(* Sequence builders run on one frame                                      *)

\* Longest frame, longest window and longest horizon (days) explored.
MaxRows == 3
MaxW == 3
MaxH == 2

\* Number of category codes of the frame's LabelEncoder: 0..NumCategories-1.
NumCategories == Len(TrainClasses)

\* Steps between consecutive rows of a frame: the same timestamp, the next time
\* slot, more than MaxH days later.
RowSteps == {0, 1, Days(MaxH) + 1}

RowAt(ts, c, e) == [Date |-> ts, Amount |-> 10 * (c + 1), Category_Encoded |-> c, Is_Expense |-> e]

\* The frames of n rows, sorted by Date, whose first row is dated FirstDay.
RECURSIVE Frames(_)
Frames(n) ==
    IF n = 0 THEN {<<>>}
    ELSE IF n = 1
    THEN {<<RowAt(Days(FirstDay), c, e)>> : c \in 0..(NumCategories - 1), e \in {0, 1}}
    ELSE UNION {{Append(f, RowAt(f[n - 1].Date + d, c, e)) :
                    d \in RowSteps, c \in 0..(NumCategories - 1), e \in {0, 1}} :
                f \in Frames(n - 1)}

InitSeq ==
    /\ frame \in UNION {Frames(n) : n \in 0..MaxRows}
    /\ seqArgs \in (1..MaxW) \X (1..MaxH)
    /\ seqOut = NotRun
    /\ expOut = NotRun
    /\ IdleParser /\ IdleDaily /\ IdlePredict /\ IdleScale
    /\ IdlePrep /\ IdleIngest /\ IdleGoal

\* create_sequences_with_targets(X, df, W, H) on the frame.
CreateSequencesWithTargets ==
    /\ seqOut = NotRun
    /\ seqOut' = create_sequences_with_targets(frame, seqArgs[1], seqArgs[2])
    /\ UNCHANGED <<frame, seqArgs, expOut, parserVars, dailyVars, predictVars, scaleVars,
                 prepVars, ingestVars, goalVars>>

\* create_sequences_exp(df, W) on the frame.
CreateSequencesExp ==
    /\ expOut = NotRun
    /\ expOut' = create_sequences_exp(frame, seqArgs[1])
    /\ UNCHANGED <<frame, seqArgs, seqOut, parserVars, dailyVars, predictVars, scaleVars,
                 prepVars, ingestVars, goalVars>>

NextSeq == CreateSequencesWithTargets \/ CreateSequencesExp

SpecSeq == InitSeq /\ [][NextSeq]_vars

-----------------------------------------------------------------------------
(* Claims about the Sequence & Label Builder                               *)

Built(out) == out # NotRun /\ out.kind = "sequences"

\* The expense rows that come after the window's last row (by position) and are
\* dated within H calendar days of its date: the future window of the claim.
ClaimedFutureIndices(df, i, W, H) ==
    {j \in 1..Len(df) :
        /\ j > i + W
        /\ DayOf(df[j].Date) - DayOf(df[i + W].Date) <= H
        /\ df[j].Is_Expense = 1}

\* The most frequent value of xs, the one met first among equally frequent ones.
ModeEarliest(xs) ==
    xs[SetMin({k \in 1..Len(xs) : \A l \in 1..Len(xs) : CountOf(xs, xs[l]) <= CountOf(xs, xs[k])})]

\* C8: the category label is the most frequent category of the future window,
\* ties go to the category that occurs first in it, and an empty future window
\* yields a sentinel that is no category code of the vocabulary.
C8_CategoryLabelRule ==
    Built(seqOut) =>
        \A k \in 1..Len(seqOut.sequences) :
            LET future == FutureTransactions(frame, k - 1, seqArgs[1], seqArgs[2])
            IN  /\ Len(future) > 0 =>
                      seqOut.targets_category[k] = ModeEarliest(CategoriesOf(future))
                /\ Len(future) = 0 =>
                      seqOut.targets_category[k] \notin 0..(NumCategories - 1)

\* C9: the future window of the window ending at row `end` holds every expense
\* row after `end` dated within H calendar days of end's date (later rows of the
\* same date included) and no row of the input window, and the amount label is
\* the sum of those rows' amounts.
C9_FutureWindowRule ==
    Built(seqOut) =>
        \A k \in 1..Len(seqOut.sequences) :
            /\ FutureIndices(frame, k - 1, seqArgs[1], seqArgs[2])
                   = ClaimedFutureIndices(frame, k - 1, seqArgs[1], seqArgs[2])
            /\ seqOut.targets_amount[k]
                   = SumSeq(AmountsOf(RowsAt(frame,
                         ClaimedFutureIndices(frame, k - 1, seqArgs[1], seqArgs[2]), 1)))

ExpectedCount(n, W) == IF n >= W THEN n - W ELSE 0

WindowsInOrder(out) ==
    /\ Len(out.sequences) = ExpectedCount(Len(frame), seqArgs[1])
    /\ \A k \in 1..Len(out.sequences) :
          out.sequences[k] = SubSeq(frame, k, k + seqArgs[1] - 1)

\* C10: for n rows and window W both builders emit n - W sequences when n >= W
\* and none when n < W, the k-th window being rows k..k+W-1 in frame order.
C10_SequenceCountAndWindows ==
    /\ seqOut # NotRun => (Built(seqOut) /\ WindowsInOrder(seqOut))
    /\ expOut # NotRun => (Built(expOut) /\ WindowsInOrder(expOut))

\* Both builders have run on a frame that yields at least two windows.
C10_Witness ==
    /\ Built(seqOut) /\ Built(expOut)
    /\ Len(frame) >= seqArgs[1] + 2
    /\ Len(seqOut.sequences) >= 2 /\ Len(expOut.sequences) >= 2

\* The neutral default 0.5, and a squared label that lies within [0, 1].
IsNeutralSq(v) == v.num * 4 = v.den
InUnitRangeSq(v) == v.num >= 0 /\ v.den > 0 /\ v.num <= v.den

\* (min(stddev / mean, 2) / 2)^2 of the amounts, by cross-multiplication: the
\* sample variance over the squared mean is n (n Q - S^2) / ((n - 1) S^2).
IsCappedCvSq(v, amounts) ==
    LET n == Len(amounts)
        S == SumSeq(amounts)
        Q == SumSeq([k \in 1..n |-> amounts[k] * amounts[k]])
    IN  S > 0 =>
           v.num * (4 * (n - 1) * S * S)
               = v.den * Min2(n * (n * Q - S * S), 4 * (n - 1) * S * S)

\* The rule on the labels of create_sequences_with_targets.
SeqVolatilityRule ==
    Built(seqOut) =>
        \A k \in 1..Len(seqOut.sequences) :
            LET future == FutureTransactions(frame, k - 1, seqArgs[1], seqArgs[2])
                v == seqOut.targets_volatility_sq[k]
            IN  /\ Len(future) <= 1 => IsNeutralSq(v)
                /\ Len(future) >= 2 => (InUnitRangeSq(v) /\ IsCappedCvSq(v, AmountsOf(future)))

\* The rule on the labels of create_sequences_exp, whose target is the one row
\* after the window: a future window of one point, so the neutral default.
ExpVolatilityRule ==
    Built(expOut) =>
        \A k \in 1..Len(expOut.sequences) : 2 * expOut.targets_volatility[k] = 1

\* C11: the volatility label of every sequence is the neutral default 0.5 when
\* the future window holds 0 or 1 points, and min(stddev/mean, cap)/cap within
\* [0, 1] otherwise, for every builder whose labels train a deployed model.
C11_VolatilityLabelRule == SeqVolatilityRule /\ ExpVolatilityRule

-----------------------------------------------------------------------------
(* The notebook's scaler cells run on a table and on an edited copy of it  *)

\* The cells in notebook order.
Flows == <<"baseline", "A", "B", "C", "D">>
FlowIndex(f) == CHOOSE k \in 1..Len(Flows) : Flows[k] = f

\* Amounts an edit can write; no row of a frame carries them.
EditAmounts == {5, 50}

Edits(df) ==
    {[df EXCEPT ![j].Amount = a] : j \in 1..Len(df), a \in EditAmounts}

InitScale ==
    /\ dataset \in UNION {Frames(n) : n \in 1..MaxRows}
    /\ edited \in Edits(dataset)
    /\ seqArgs \in (1..MaxW) \X (1..MaxH)
    /\ fitted = [f \in SeqSet(Flows) |-> NotRun]
    /\ fittedEdited = [f \in SeqSet(Flows) |-> NotRun]
    /\ frame = <<>> /\ seqOut = NotRun /\ expOut = NotRun
    /\ IdleParser /\ IdleDaily /\ IdlePredict /\ IdlePrep /\ IdleIngest /\ IdleGoal

Ran(f) == fitted[f] # NotRun

\* The baseline cells 1519-1616, on the table and on its edited copy.
FitBaseline ==
    /\ ~Ran("baseline")
    /\ fitted' = [fitted EXCEPT !["baseline"] =
                     FitBaselineScalers(dataset, seqArgs[1], seqArgs[2])]
    /\ fittedEdited' = [fittedEdited EXCEPT !["baseline"] =
                           FitBaselineScalers(edited, seqArgs[1], seqArgs[2])]
    /\ UNCHANGED <<dataset, edited, parserVars, dailyVars, predictVars, seqVars,
                 prepVars, ingestVars, goalVars>>

\* The cells of one experiment, after the cells before it.
FitExperiment(art) ==
    /\ ~Ran(art.experiment)
    /\ Ran(Flows[FlowIndex(art.experiment) - 1])
    /\ fitted' = [fitted EXCEPT ![art.experiment] = FitExperimentScalers(art, dataset)]
    /\ fittedEdited' = [fittedEdited EXCEPT ![art.experiment] = FitExperimentScalers(art, edited)]
    /\ UNCHANGED <<dataset, edited, parserVars, dailyVars, predictVars, seqVars,
                 prepVars, ingestVars, goalVars>>

NextScale == FitBaseline \/ \E art \in ProductionArtifacts : FitExperiment(art)

SpecScale == InitScale /\ [][NextScale]_vars

-----------------------------------------------------------------------------
(* Claims about Feature Scaling                                            *)

\* The edit leaves every row the baseline's training sequences read as it was,
\* and there is a training sequence.
BaselineTrainingUntouched ==
    /\ BaselineTrainCount(Len(dataset) - seqArgs[1]) >= 1
    /\ \A j \in BaselineTrainRows(dataset, seqArgs[1], seqArgs[2]) : edited[j] = dataset[j]

\* The edit leaves the training rows of the experiment's table as they were.
ExperimentTrainingUntouched(art) ==
    LET t == ExperimentTable(art, dataset)
        e == ExperimentTable(art, edited)
    IN  /\ t.kind = "frame" /\ e.kind = "frame"
        /\ train_size(Len(t.rows)) >= 1
        /\ Slice(t.rows, 0, train_size(Len(t.rows))) = Slice(e.rows, 0, train_size(Len(e.rows)))

ExperimentScalersNoLeak ==
    \A art \in ProductionArtifacts :
        (Ran(art.experiment) /\ ExperimentTrainingUntouched(art))
            => fitted[art.experiment] = fittedEdited[art.experiment]

BaselineScalersNoLeak ==
    (Ran("baseline") /\ BaselineTrainingUntouched)
        => fitted["baseline"] = fittedEdited["baseline"]

\* C5: every scaler's fitted state depends on the training partition only: an
\* edit of rows outside it leaves the fitted state of the baseline scalers and
\* of the scalers of Experiments A-D unchanged.
C5_NoLeakage == BaselineScalersNoLeak /\ ExperimentScalersNoLeak

-----------------------------------------------------------------------------
(* The notebook's preparation cells: the running balance of df_bilstm and  *)
(* the chronological partitions                                            *)

\* Lines 1496-1499: the Liquidity_Buffer column of the table.
LiquidityColumn(df) == [k \in 1..Len(df) |-> Liquidity_Buffer(df, k)]

InitLiquidity ==
    /\ frame \in UNION {Frames(n) : n \in 0..MaxRows}
    /\ seqArgs = <<0, 0>> /\ seqOut = NotRun /\ expOut = NotRun
    /\ IdlePrep
    /\ IdleParser /\ IdleDaily /\ IdlePredict /\ IdleScale /\ IdleIngest /\ IdleGoal

ComputeLiquidity ==
    /\ liquidity = NotRun
    /\ liquidity' = [kind |-> "column", values |-> LiquidityColumn(frame)]
    /\ UNCHANGED <<nSamples, split, parserVars, dailyVars, predictVars, seqVars,
                   scaleVars, ingestVars, goalVars>>

NextLiquidity == ComputeLiquidity

SpecLiquidity == InitLiquidity /\ [][NextLiquidity]_vars

\* The largest number of sequences or rows handed to a split.
MaxSamples == 40

\* The test part taken from the front of the samples, the training part after it.
train_test_split_test_first(n, percent) ==
    LET n_test == (percent * n + 99) \div 100
        n_train == n - n_test
    IN  IF n_train = 0 THEN Raised("ValueError")
        ELSE [kind |-> "split", train |-> n_test, test |-> 0, n_train |-> n_train,
              n_test |-> n_test]

\* sklearn train_test_split(test_size=percent/100, shuffle=False) of n samples:
\* n_test = ceil(test_size * n), the training part is the first n - n_test
\* samples and the test part the rest; ValueError when the training part would
\* be empty. train and test are the offsets of the first sample of each part.
train_test_split(n, percent) ==
    LET n_test == (percent * n + 99) \div 100
        n_train == n - n_test
    IN  IF n_train = 0 THEN Raised("ValueError")
        ELSE [kind |-> "split", train |-> 0, test |-> n_train, n_train |-> n_train,
              n_test |-> n_test]

\* The indices first, first + 1, ..., first + count - 1 in order.
IndexRange(first, count) == [k \in 1..count |-> first + k - 1]

\* Lines 1629-1639: 70% training, then the remaining 30% halved into validation
\* and test, neither split shuffled.
SplitSequences(n) ==
    LET first == train_test_split(n, 30)
    IN  IF first.kind = "raise" THEN first
        ELSE LET second == train_test_split(first.n_test, 50)
             IN  IF second.kind = "raise" THEN second
                 ELSE [kind |-> "partitions",
                       train |-> IndexRange(first.train, first.n_train),
                       validation |-> IndexRange(first.test + second.train, second.n_train),
                       test |-> IndexRange(first.test + second.test, second.n_test)]

\* Lines 2571-2574: the first int(0.8 n) rows for training, the rest for test.
SplitRows(n) ==
    [kind |-> "partitions",
     train |-> IndexRange(0, train_size(n)),
     validation |-> <<>>,
     test |-> IndexRange(train_size(n), n - train_size(n))]

InitSplit ==
    /\ nSamples \in 0..MaxSamples
    /\ liquidity = NotRun /\ split = [sequences |-> NotRun, rows |-> NotRun]
    /\ IdleParser /\ IdleDaily /\ IdlePredict /\ IdleSeq /\ IdleScale
    /\ IdleIngest /\ IdleGoal

SplitBaseline ==
    /\ split.sequences = NotRun
    /\ split' = [split EXCEPT !.sequences = SplitSequences(nSamples)]
    /\ UNCHANGED <<liquidity, nSamples, parserVars, dailyVars, predictVars, seqVars,
                   scaleVars, ingestVars, goalVars>>

SplitExperiment ==
    /\ split.rows = NotRun
    /\ split' = [split EXCEPT !.rows = SplitRows(nSamples)]
    /\ UNCHANGED <<liquidity, nSamples, parserVars, dailyVars, predictVars, seqVars,
                   scaleVars, ingestVars, goalVars>>

NextSplit == SplitBaseline \/ SplitExperiment

SpecSplit == InitSplit /\ [][NextSplit]_vars

-----------------------------------------------------------------------------
(* Claims about the preparation cells                                      *)

\* The balance after row k by a scan from the starting balance: credit adds the
\* amount, debit subtracts it.
RECURSIVE ScanBalance(_, _)
ScanBalance(df, k) ==
    IF k = 0 THEN INITIAL_BALANCE
    ELSE ScanBalance(df, k - 1)
           + (IF df[k].Is_Expense = 1 THEN 0 - df[k].Amount ELSE df[k].Amount)

\* C25: the liquidity buffer at the k-th transaction is the starting balance
\* plus the signed amounts of transactions 1..k, so a change of a later
\* transaction leaves every earlier buffer value as it was.
C25_LiquidityBufferIsScan ==
    liquidity # NotRun =>
        /\ Len(liquidity.values) = Len(frame)
        /\ \A k \in 1..Len(frame) : liquidity.values[k] = ScanBalance(frame, k)
        /\ \A e \in Edits(frame) : \A k \in 1..Len(frame) :
               (\A j \in 1..k : e[j] = frame[j])
                   => LiquidityColumn(e)[k] = liquidity.values[k]

\* The column has been computed on a table of a debit row followed by a credit
\* row.
C25_Witness ==
    /\ liquidity # NotRun
    /\ Len(frame) >= 2
    /\ frame[1].Is_Expense = 1
    /\ frame[2].Is_Expense = 0

\* What a partitioning produced, as one list: training, validation, test.
PartsInOrder(parts) == parts.train \o parts.validation \o parts.test

\* C26: the partitions of a split are contiguous index ranges in chronological
\* order: listed as training, validation, test they are the indices 0..n-1 in
\* increasing order, so they are disjoint, cover every sample, and every
\* training index is below every validation index, which is below every test
\* index.
C26_ContiguousChronologicalSplit ==
    (split # NotRun) =>
        /\ (split.sequences # NotRun /\ split.sequences.kind = "partitions")
               => PartsInOrder(split.sequences) = IndexRange(0, nSamples)
        /\ (split.rows # NotRun /\ split.rows.kind = "partitions")
               => PartsInOrder(split.rows) = IndexRange(0, nSamples)

\* The sequences have been split into three parts, none of them empty.
C26_Witness ==
    /\ split # NotRun
    /\ split.sequences # NotRun
    /\ split.sequences.kind = "partitions"
    /\ split.sequences.train # <<>>
    /\ split.sequences.validation # <<>>
    /\ split.sequences.test # <<>>
    /\ split.rows # NotRun

-----------------------------------------------------------------------------
(* One predictor serving calls of predict_next_week for several users      *)

\* The methods of a scaler or encoder that take its parameters from the data
\* handed to them; every other method and attribute read leaves the object as
\* it is (transform, inverse_transform, classes_, predict).
FittingMethods == {"fit", "fit_transform", "partial_fit"}

\* LabelEncoder.fit: the distinct labels in sorted order.
LabelClasses(labels) ==
    SelectSeq(DailyClasses, LAMBDA c : \E k \in 1..Len(labels) : labels[k] = c)

\* One use of a loaded object by the predictor.
ArtifactCall(object, method, data) == [object |-> object, method |-> method, data |-> data]

\* The object of the predictor after one use of it.
Effect(art, call) ==
    IF call.method \notin FittingMethods THEN art
    ELSE IF call.object = "amount_scaler"
    THEN [art EXCEPT !.amount_fit = FittedOn(call.data)]
    ELSE IF call.object = "feature_scaler"
    THEN [art EXCEPT !.feature_fit = FittedOn(call.data)]
    ELSE IF call.object = "category_encoder"
    THEN [art EXCEPT !.classes = LabelClasses(call.data)]
    ELSE art

RECURSIVE ApplyCalls(_, _)
ApplyCalls(art, calls) ==
    IF calls = <<>> THEN art
    ELSE ApplyCalls(Effect(art, Head(calls)), Tail(calls))

\* The category_safe column of the daily rows, lines 92-95.
SafeLabels(art, daily) ==
    [k \in 1..Len(daily.rows) |-> category_safe(art, daily.rows[k].Category)]

\* The column Amount of the daily rows.
AmountColumn(daily) == [k \in 1..Len(daily.rows) |-> daily.rows[k].Amount]

\* As PreprocessCalls, with the amount scaler fitted on the data of the call.
PreprocessCallsRefitting(build, art, transactions) ==
    LET daily == preprocess_daily(transactions)
    IN  IF InsufficientData(transactions) \/ daily.kind = "raise" THEN <<>>
        ELSE LET encoding ==
                     <<ArtifactCall("category_encoder", "classes_", <<>>),
                       ArtifactCall("category_encoder", "transform", SafeLabels(art, daily))>>
                 scaling ==
                     <<ArtifactCall("amount_scaler", "fit_transform", AmountColumn(daily))>>
             IN  IF EncoderRaises(art, daily) THEN encoding
                 ELSE IF AmountScalerRaises(build, art) THEN encoding \o scaling
                 ELSE encoding \o scaling \o
                      <<ArtifactCall("feature_scaler", "transform", daily.rows)>>

\* The uses _preprocess_user_data makes of the loaded objects, in order: none
\* when the call answers warmup (line 131) or steps A-C raise; classes_ and
\* transform of the encoder (lines 92, 96), where transform can raise; then
\* transform of the amount scaler (line 103), which can raise, and of the
\* feature scaler (line 108).
PreprocessCalls(build, art, transactions) ==
    LET daily == preprocess_daily(transactions)
    IN  IF InsufficientData(transactions) \/ daily.kind = "raise" THEN <<>>
        ELSE LET encoding ==
                     <<ArtifactCall("category_encoder", "classes_", <<>>),
                       ArtifactCall("category_encoder", "transform", SafeLabels(art, daily))>>
                 scaling ==
                     <<ArtifactCall("amount_scaler", "transform", AmountColumn(daily))>>
             IN  IF EncoderRaises(art, daily) THEN encoding
                 ELSE IF AmountScalerRaises(build, art) THEN encoding \o scaling
                 ELSE encoding \o scaling \o
                      <<ArtifactCall("feature_scaler", "transform", daily.rows)>>

\* The uses predict_next_week makes of the loaded objects once the tensors are
\* built: model.predict (line 143) and, when it answers, inverse_transform of
\* the amount scaler and of the encoder (lines 152, 158).
InferenceCalls(result) ==
    <<ArtifactCall("model", "predict", <<>>)>>
    \o (IF result = ErrorResult("ExternalModelError") THEN <<>>
        ELSE <<ArtifactCall("amount_scaler", "inverse_transform", <<>>),
               ArtifactCall("category_encoder", "inverse_transform", <<>>)>>)

\* The objects of the predictor after one call of predict_next_week that
\* returned result: predict_next_week and _preprocess_user_data assign no
\* attribute of self, so the objects change only through the methods called
\* on them.
ArtifactsAfterCall(build, art, transactions, result) ==
    ApplyCalls(art,
               PreprocessCalls(build, art, transactions)
               \o (IF ~InsufficientData(transactions)
                      /\ preprocess_user_data(build, art, transactions).kind = "tensors"
                   THEN InferenceCalls(result) ELSE <<>>))

\* Whether the call reaches model.predict.
CallsModel(build, art, transactions) ==
    /\ ~InsufficientData(transactions)
    /\ preprocess_user_data(build, art, transactions).kind = "tensors"

\* predict_next_week, lines 126-174: the results a call can return, one for
\* each answer of the external model.
predict_next_week(build, art, transactions) ==
    IF InsufficientData(transactions) THEN {Warmup}
    ELSE IF ~CallsModel(build, art, transactions)
    THEN {ErrorResult(preprocess_user_data(build, art, transactions).error)}
    ELSE {DecodedResult(art, out) : out \in ModelOutputs(art)}
         \cup {ErrorResult("ExternalModelError")}

\* Calls of the external model in one behaviour.
MaxCalls == 2

\* n transactions of one category on consecutive days.
ConsecutiveDays(n, c) ==
    [i \in 1..n |-> [ts |-> Days(FirstDay + i - 1), amount |-> AmountFor(c),
                     type |-> "debit", category |-> c]]

\* The histories of the users: one transaction short of the minimum or just
\* enough, of a category the encoders know or not.
UserHistories ==
    {ConsecutiveDays(n, c) : n \in {MinTransactions - 1, MinTransactions},
                             c \in HistoryCategories}

InitCalls ==
    /\ artifacts \in ProductionArtifacts
    /\ loaded = artifacts
    /\ sklearn \in SklearnBuilds
    /\ history = <<>>
    /\ prediction = NotRun
    /\ modelCalls = 0
    /\ IdleParser /\ IdleDaily /\ IdleSeq /\ IdleScale
    /\ IdlePrep /\ IdleIngest /\ IdleGoal

\* One call of predict_next_week with the history of some user.
Call(transactions) ==
    /\ modelCalls < MaxCalls
    /\ history' = transactions
    /\ prediction' \in predict_next_week(sklearn, artifacts, transactions)
    /\ artifacts' = ArtifactsAfterCall(sklearn, artifacts, transactions, prediction')
    /\ UNCHANGED <<sklearn, loaded>>
    /\ modelCalls' = modelCalls + (IF CallsModel(sklearn, artifacts, transactions) THEN 1 ELSE 0)
    /\ UNCHANGED <<parserVars, dailyVars, seqVars, scaleVars,
                   prepVars, ingestVars, goalVars>>

NextCalls == \E transactions \in UserHistories : Call(transactions)

SpecCalls == InitCalls /\ [][NextCalls]_vars

\* C27: after a call of predict_next_week, whatever its outcome and whoever's
\* data it is given, the scalers, the encoder and the metadata the predictor
\* holds are those that were loaded at construction, and the result is one a
\* predictor just constructed gives for the data of this call.
C27_ArtifactsUnchanged ==
    [][/\ artifacts' = loaded'
       /\ prediction' \in predict_next_week(sklearn', loaded', history')]_vars

\* The model has been called twice and the last call succeeded.
C27_Witness ==
    /\ modelCalls = MaxCalls
    /\ prediction # NotRun
    /\ "status" \in DOMAIN prediction
    /\ prediction.status = "success"

-----------------------------------------------------------------------------
(* SMS Parser Service: backend/app/services/sms_parser.py, the parser the   *)
(* parse-sms endpoint calls.  A message is its text, one character per      *)
(* element; an amount is kept exact as a number of hundredths.              *)

\* The literal lit stands in the text at position i.
LiteralAt(text, i, lit) ==
    i + Len(lit) - 1 <= Len(text) /\ SubSeq(text, i, i + Len(lit) - 1) = lit

\* The position after the longest run of characters of S that starts at i.
RECURSIVE RunEnd(_, _, _)
RunEnd(text, i, S) ==
    IF i > Len(text) \/ text[i] \notin S THEN i ELSE RunEnd(text, i + 1, S)

\* [A-Z0-9]
UpperAlnum == Digits \cup {UpperLetters[i] : i \in 1..26}

\* ref_pattern, line 36: (?:REF|TXN|ID)[:\s]*([A-Z0-9]+)
RefLabels == {<<"R", "E", "F">>, <<"T", "X", "N">>, <<"I", "D">>}
RefLabelAt(text, i) == CHOOSE lab \in RefLabels : LiteralAt(text, i, lab)
RefValueStart(text, i) ==
    RunEnd(text, i + Len(RefLabelAt(text, i)), {":"} \cup WhiteSpace)
RefMatchesAt(text, i) ==
    /\ \E lab \in RefLabels : LiteralAt(text, i, lab)
    /\ RefValueStart(text, i) <= Len(text)
    /\ text[RefValueStart(text, i)] \in UpperAlnum

\* re.search(ref_pattern, text).group(1), lines 49-51: the value after the
\* leftmost label that has one; None when no label has a value.
ref_match(text) ==
    LET at == {i \in 1..Len(text) : RefMatchesAt(text, i)}
    IN  IF at = {} THEN None
        ELSE LET j == RefValueStart(text, SetMin(at))
             IN  SubSeq(text, j, RunEnd(text, j, UpperAlnum) - 1)

SmsReceivedRef ==
    <<"Y", "o", "u", " ", "h", "a", "v", "e", " ", "r", "e", "c", "e", "i",
      "v", "e", "d", " ", "R", "W", "F", " ", "5", ",", "0", "0", "0", " ",
      "f", "r", "o", "m", " ", "0", "7", "8", "8", "1", "2", "3", "4", "5",
      "6", ".", " ", "R", "e", "f", ":", " ", "T", "X", "1", "2", "3">>

SmsSentRef ==
    <<"P", "a", "y", "m", "e", "n", "t", " ", "o", "f", " ", "R", "W", "F",
      " ", "5", ",", "0", "0", "0", " ", "t", "o", " ", "2", "5", "0", "7",
      "2", "2", "0", "0", "0", "1", "1", "1", ".", " ", "R", "e", "f", ":",
      " ", "T", "X", "1", "2", "3">>

SmsPaid500 ==
    <<"Y", "o", "u", " ", "h", "a", "v", "e", " ", "p", "a", "i", "d", " ",
      "R", "W", "F", " ", "5", "0", "0", " ", "t", "o", " ", "0", "7", "8",
      "8", "1", "2", "3", "4", "5", "6">>

SmsPaid900 ==
    <<"Y", "o", "u", " ", "h", "a", "v", "e", " ", "p", "a", "i", "d", " ",
      "R", "W", "F", " ", "9", "0", "0", " ", "f", "o", "r", " ", "a", "i",
      "r", "t", "i", "m", "e">>

SmsSent1500 ==
    <<"S", "e", "n", "t", " ", "R", "W", "F", " ", "1", ",", "5", "0", "0",
      " ", "t", "o", " ", "+", "2", "5", "0", "7", "8", "8", "1", "2", "3",
      "4", "5", "6">>

SmsSentComma ==
    <<"S", "e", "n", "t", " ", "R", "W", "F", " ", ",", " ", "t", "o", " ",
      "0", "7", "8", "8", "1", "2", "3", "4", "5", "6">>

SmsNoAmount ==
    <<"Y", "o", "u", "r", " ", "b", "a", "l", "a", "n", "c", "e", " ", "i",
      "s", " ", "l", "o", "w">>

SmsSalary ==
    <<"S", "a", "l", "a", "r", "y", " ", "F", "R", "W", " ", "2", "0", "0",
      "0", "0", ".", "5", "0", " ", "c", "r", "e", "d", "i", "t", "e", "d">>

SmsBill ==
    <<"B", "i", "l", "l", " ", "p", "a", "y", "m", "e", "n", "t", " ", "R",
      "W", "F", " ", "2", ",", "0", "0", "0", " ", "T", "X", "N", " ", "8",
      "8", "4", "5", "1", "2">>

SmsEmpty == <<>>

\* hashlib.md5(sms_text.encode()).hexdigest()[:12].upper() of the messages
\* explored.
Md5Table ==
    {<<SmsReceivedRef, <<"2", "1", "C", "5", "B", "0", "F", "0", "4", "5", "A", "0">>>>,
     <<SmsSentRef, <<"A", "9", "2", "D", "E", "F", "D", "F", "B", "C", "6", "5">>>>,
     <<SmsPaid500, <<"8", "E", "A", "C", "8", "7", "9", "C", "F", "4", "F", "F">>>>,
     <<SmsPaid900, <<"E", "2", "4", "B", "2", "C", "2", "F", "6", "4", "C", "F">>>>,
     <<SmsSent1500, <<"F", "1", "5", "3", "C", "3", "7", "7", "2", "6", "6", "F">>>>,
     <<SmsSentComma, <<"7", "E", "6", "D", "8", "D", "C", "A", "A", "5", "1", "B">>>>,
     <<SmsNoAmount, <<"7", "4", "F", "B", "1", "4", "0", "3", "C", "B", "C", "1">>>>,
     <<SmsSalary, <<"A", "F", "5", "5", "F", "6", "3", "A", "6", "5", "A", "1">>>>,
     <<SmsBill, <<"8", "1", "1", "A", "6", "E", "4", "8", "B", "6", "5", "2">>>>,
     <<SmsEmpty, <<"D", "4", "1", "D", "8", "C", "D", "9", "8", "F", "0", "0">>>>}

\* Line 54: the reference generated from the hash of the raw text.
md5_reference(sms_text) == (CHOOSE p \in Md5Table : p[1] = sms_text)[2]

\* amount_pattern, line 34: (?:RWF|FRW)\s*([\d,]+(?:\.\d{2})?)
CurrencyLabels == {<<"R", "W", "F">>, <<"F", "R", "W">>}
AmountStart(text, i) == RunEnd(text, i + 3, WhiteSpace)
AmountMatchesAt(text, i) ==
    /\ \E lab \in CurrencyLabels : LiteralAt(text, i, lab)
    /\ AmountStart(text, i) <= Len(text)
    /\ text[AmountStart(text, i)] \in AmountChars

\* re.search(amount_pattern, text), line 57: the [\d,]+ run and the two
\* decimals after it (<<>> when there are none) of the leftmost match.
amount_match(text) ==
    LET at == {i \in 1..Len(text) : AmountMatchesAt(text, i)}
    IN  IF at = {} THEN [kind |-> "nomatch"]
        ELSE LET j == AmountStart(text, SetMin(at))
                 e == RunEnd(text, j, AmountChars)
             IN  [kind |-> "match",
                  whole |-> SubSeq(text, j, e - 1),
                  decimals |-> IF e + 2 <= Len(text) /\ text[e] = "."
                                  /\ text[e + 1] \in Digits /\ text[e + 2] \in Digits
                               THEN SubSeq(text, e + 1, e + 2) ELSE <<>>]

\* Lines 59-60: float(amount_str.replace(',', '')), in hundredths; ValueError
\* when nothing is left of the group.
ServiceFloat(m) ==
    LET ds == SelectSeq(m.whole, LAMBDA c : c # ",")
    IN  IF ds = <<>> /\ m.decimals = <<>> THEN [ok |-> FALSE, v |-> 0]
        ELSE [ok |-> TRUE,
              v |-> 100 * DigitsValue(ds)
                      + (IF m.decimals = <<>> THEN 0 ELSE DigitsValue(m.decimals))]

\* 7[238]\d{7} at position i.
SubscriberAt(text, i) ==
    /\ i + 8 <= Len(text)
    /\ text[i] = "7"
    /\ text[i + 1] \in {"2", "3", "8"}
    /\ \A k \in (i + 2)..(i + 8) : text[k] \in Digits

\* phone_pattern, line 35: (?:07[238]\d{7}|(?:\+?250)?7[238]\d{7}); the length
\* of the match at position i, 0 when there is none.
PhoneLengthAt(text, i) ==
    IF LiteralAt(text, i, <<"0">>) /\ SubscriberAt(text, i + 1) THEN 10
    ELSE IF LiteralAt(text, i, <<"+", "2", "5", "0">>) /\ SubscriberAt(text, i + 4) THEN 13
    ELSE IF LiteralAt(text, i, <<"2", "5", "0">>) /\ SubscriberAt(text, i + 3) THEN 12
    ELSE IF SubscriberAt(text, i) THEN 9
    ELSE 0

\* Lines 65-73: the leftmost phone, '+250' or '250' replaced by '0'; None when
\* there is none.
counterparty(text) ==
    LET at == {i \in 1..Len(text) : PhoneLengthAt(text, i) > 0}
    IN  IF at = {} THEN None
        ELSE LET i == SetMin(at)
                 phone == SubSeq(text, i, i + PhoneLengthAt(text, i) - 1)
             IN  IF StartsWith(phone, <<"+", "2", "5", "0">>)
                 THEN <<"0">> \o SubSeq(phone, 5, Len(phone))
                 ELSE IF StartsWith(phone, <<"2", "5", "0">>)
                 THEN <<"0">> \o SubSeq(phone, 4, Len(phone))
                 ELSE phone

\* Lines 76-79.
income_keywords ==
    {<<"R", "E", "C", "E", "I", "V", "E", "D">>,
     <<"C", "R", "E", "D", "I", "T", "E", "D">>,
     <<"D", "E", "P", "O", "S", "I", "T">>,
     <<"P", "A", "Y", "M", "E", "N", "T", " ", "R", "E", "C", "E", "I", "V", "E", "D">>,
     <<"T", "R", "A", "N", "S", "F", "E", "R", " ", "F", "R", "O", "M">>,
     <<"Y", "O", "U", " ", "H", "A", "V", "E", " ", "R", "E", "C", "E", "I", "V", "E", "D">>,
     <<"I", "N", "C", "O", "M", "I", "N", "G">>}

\* Lines 80-83.
expense_keywords ==
    {<<"S", "E", "N", "T">>,
     <<"P", "A", "I", "D">>,
     <<"D", "E", "B", "I", "T", "E", "D">>,
     <<"W", "I", "T", "H", "D", "R", "A", "W", "N">>,
     <<"T", "R", "A", "N", "S", "F", "E", "R", " ", "T", "O">>,
     <<"P", "A", "Y", "M", "E", "N", "T", " ", "T", "O">>,
     <<"P", "U", "R", "C", "H", "A", "S", "E">>,
     <<"B", "I", "L", "L", " ", "P", "A", "Y", "M", "E", "N", "T">>,
     <<"A", "I", "R", "T", "I", "M", "E">>}

HasAny(text, words) == \E w \in words : Contains(text, w)

\* Lines 85-102: the type, description and confidence (in tenths) the keywords
\* give.
ByKeyword(text) ==
    IF HasAny(text, income_keywords)
    THEN [transaction_type |-> "income", description |-> "Mobile Money received",
          confidence |-> 8]
    ELSE IF HasAny(text, expense_keywords)
    THEN [transaction_type |-> "expense", description |-> "Mobile Money payment",
          confidence |-> 8]
    ELSE [transaction_type |-> "expense", description |-> "Mobile Money transaction",
          confidence |-> 5]

\* Lines 105-113: more context from the text.
WithContext(text, r) ==
    IF HasAny(text, {<<"A", "I", "R", "T", "I", "M", "E">>, <<"D", "A", "T", "A">>, <<"B", "U", "N", "D", "L", "E">>})
    THEN [r EXCEPT !.description = "Airtime/Data purchase"]
    ELSE IF HasAny(text, {<<"B", "I", "L", "L">>, <<"U", "T", "I", "L", "I", "T", "Y">>})
    THEN [r EXCEPT !.description = "Bill payment"]
    ELSE IF HasAny(text, {<<"S", "A", "L", "A", "R", "Y">>, <<"W", "A", "G", "E">>})
    THEN [r EXCEPT !.description = "Salary payment", !.transaction_type = "income"]
    ELSE IF HasAny(text, {<<"E", "J", "O", " ", "H", "E", "Z", "A">>})
    THEN [r EXCEPT !.description = "Ejo Heza contribution"]
    ELSE r

\* services/sms_parser.py parse_momo_sms, lines 13-115.
service_parse_momo_sms(sms_text) ==
    IF sms_text = <<>> THEN Unparseable
    ELSE LET text == StrUpper(Strip(sms_text))
             reference == IF ref_match(text) # None THEN ref_match(text)
                          ELSE md5_reference(sms_text)
             m == amount_match(text)
         IN  IF m.kind = "nomatch" THEN Unparseable
             ELSE IF ~ServiceFloat(m).ok THEN Raised("ValueError")
             ELSE LET r == WithContext(text, ByKeyword(text))
                  IN  [kind |-> "record",
                       transaction_type |-> r.transaction_type,
                       amount |-> ServiceFloat(m).v,
                       counterparty |-> counterparty(text),
                       description |-> r.description,
                       reference |-> reference,
                       transaction_date |-> "now",
                       confidence |-> r.confidence]

\* batch_parse_sms, lines 118-133: the records of the messages that parse, in
\* order; an exception of parse_momo_sms leaves the function.
RECURSIVE batch_parse_sms(_)
batch_parse_sms(messages) ==
    IF messages = <<>> THEN [kind |-> "list", parsed |-> <<>>]
    ELSE LET result == service_parse_momo_sms(Head(messages))
         IN  IF result.kind = "raise" THEN result
             ELSE LET rest == batch_parse_sms(Tail(messages))
                  IN  IF rest.kind = "raise" THEN rest
                      ELSE IF result.kind = "none" THEN rest
                      ELSE [kind |-> "list", parsed |-> <<result>> \o rest.parsed]

\* The messages handed to the service.
ServiceMessages ==
    {SmsReceivedRef,
     SmsSentRef,
     SmsPaid500,
     SmsPaid900,
     SmsSent1500,
     SmsSentComma,
     SmsNoAmount,
     SmsSalary,
     SmsBill,
     SmsEmpty}

-----------------------------------------------------------------------------
(* SMS ingest: backend/app/api/v1/endpoints/transactions.py, the parse-sms  *)
(* endpoint over the transactions table.  The table is the sequence of its  *)
(* rows in insertion order; the endpoint is an async function without an    *)
(* await, so one request is one step.                                       *)

MaxBatch == 2
MaxRequests == 2
MaxEdits == 1

Users == {1, 2}

\* The messages users submit.
IngestMessages ==
    {SmsReceivedRef, SmsSentRef, SmsPaid500, SmsPaid900, SmsSentComma, SmsNoAmount}

\* Line 304: parse_momo_sms of each message, computed once.
Parsed == [sms_text \in ServiceMessages |-> service_parse_momo_sms(sms_text)]

Batches == UNION {[1..n -> IngestMessages] : n \in 0..MaxBatch}

\* The lists handed to batch_parse_sms.
ServiceBatches == UNION {[1..n -> ServiceMessages] : n \in 0..MaxBatch}

\* The phone number of SmsReceivedRef and SmsPaid500.
Phone0788 == <<"0", "7", "8", "8", "1", "2", "3", "4", "5", "6">>

\* The reference of SmsReceivedRef and SmsSentRef.
RefTX123 == <<"T", "X", "1", "2", "3">>

\* Bodies of POST /transactions (schemas/transaction.py, TransactionCreate):
\* one without a reference and one with a reference of the caller's choice;
\* amount in hundredths.
TransactionCreateInputs ==
    {[transaction_type |-> "expense", category |-> "dining_out", need_want |-> "want",
      amount |-> 50000, description |-> "Lunch", counterparty |-> None,
      counterparty_name |-> "None", reference |-> None, raw_sms |-> None,
      transaction_date |-> "now"],
     [transaction_type |-> "income", category |-> "other", need_want |-> "uncategorized",
      amount |-> 500000, description |-> "None", counterparty |-> Phone0788,
      counterparty_name |-> "None", reference |-> RefTX123, raw_sms |-> None,
      transaction_date |-> "now"]}

\* Bodies of PATCH /transactions/{id} (TransactionUpdate): every field is
\* optional.
NoBool == [kind |-> "none"]
TransactionUpdateInputs ==
    {[category |-> "food_groceries", need_want |-> "need", description |-> "None",
      counterparty_name |-> "Shop", is_verified |-> [kind |-> "bool", v |-> TRUE]],
     [category |-> "transport", need_want |-> "None", description |-> "None",
      counterparty_name |-> "None", is_verified |-> NoBool],
     [category |-> "None", need_want |-> "want", description |-> "Note",
      counterparty_name |-> "None", is_verified |-> [kind |-> "bool", v |-> TRUE]]}

\* Bodies of POST /transactions/mappings/ (CounterpartyMappingCreate).
MappingInputs ==
    {[counterparty |-> Phone0788, display_name |-> "Landlord",
      category |-> "rent", need_want |-> "need"],
     [counterparty |-> Phone0788, display_name |-> "Shop",
      category |-> "food_groceries", need_want |-> "need"]}

\* Lines 297-300: the mappings of the user.
mappings(table, user_id) == {m \in table : m.user_id = user_id}

\* Lines 312-314: a stored row with this reference, whoever owns it.
existing(db, reference) == \E i \in 1..Len(db) : db[i].reference = reference

\* models/transaction.py line 93: the id of the next row.  The key is an
\* INTEGER PRIMARY KEY of SQLite (core/config.py line 53), which takes one
\* more than the largest id in the table.
NextId(db) ==
    IF db = <<>> THEN 1
    ELSE 1 + (CHOOSE n \in {db[i].id : i \in 1..Len(db)} :
                  \A i \in 1..Len(db) : db[i].id <= n)

\* A row as stored, but without its reference.
TransactionWithoutReference(db, mapping_dict, user_id, sms_text, p) ==
    LET known == {m \in mapping_dict : m.counterparty = p.counterparty}
        mapping == CHOOSE m \in known : TRUE
    IN  [id |-> NextId(db),
         user_id |-> user_id,
         transaction_type |-> p.transaction_type,
         category |-> IF known = {} THEN "other" ELSE mapping.category,
         need_want |-> IF known = {} THEN "uncategorized" ELSE mapping.need_want,
         amount |-> p.amount,
         description |-> p.description,
         counterparty |-> p.counterparty,
         counterparty_name |-> IF known = {} THEN "None" ELSE mapping.display_name,
         reference |-> None,
         raw_sms |-> sms_text,
         transaction_date |-> p.transaction_date,
         confidence_score |-> p.confidence,
         is_verified |-> FALSE]

\* Lines 319-343: the row built from a parsed message.
Transaction(db, mapping_dict, user_id, sms_text, p) ==
    LET known == {m \in mapping_dict : m.counterparty = p.counterparty}
        mapping == CHOOSE m \in known : TRUE
    IN  [id |-> NextId(db),
         user_id |-> user_id,
         transaction_type |-> p.transaction_type,
         category |-> IF known = {} THEN "other" ELSE mapping.category,
         need_want |-> IF known = {} THEN "uncategorized" ELSE mapping.need_want,
         amount |-> p.amount,
         description |-> p.description,
         counterparty |-> p.counterparty,
         counterparty_name |-> IF known = {} THEN "None" ELSE mapping.display_name,
         reference |-> p.reference,
         raw_sms |-> sms_text,
         transaction_date |-> p.transaction_date,
         confidence_score |-> p.confidence,
         is_verified |-> FALSE]

\* Lines 345-346 over models/transaction.py line 105: the insert is refused
\* when a row already holds a reference that is not NULL.
commit(db, row) ==
    IF row.reference # None /\ existing(db, row.reference)
    THEN [ok |-> FALSE, db |-> db]
    ELSE [ok |-> TRUE, db |-> Append(db, row)]

\* Lines 303-352: one message of the batch.  acc holds the table, the rows
\* added by this request and the count of failures.
IngestOne(acc, mapping_dict, user_id, sms_text) ==
    LET p == Parsed[sms_text]
    IN  IF p.kind = "raise" THEN [acc EXCEPT !.failed_count = @ + 1]
        ELSE IF p.kind = "none" THEN [acc EXCEPT !.failed_count = @ + 1]
        ELSE IF existing(acc.db, p.reference) THEN acc
        ELSE LET c == commit(acc.db, Transaction(acc.db, mapping_dict, user_id, sms_text, p))
             IN  IF ~c.ok THEN [acc EXCEPT !.failed_count = @ + 1]
                 ELSE [acc EXCEPT !.db = c.db,
                                  !.parsed_transactions = Append(@, c.db[Len(c.db)])]

RECURSIVE IngestAll(_, _, _, _)
IngestAll(acc, mapping_dict, user_id, messages) ==
    IF messages = <<>> THEN acc
    ELSE IngestAll(IngestOne(acc, mapping_dict, user_id, Head(messages)),
                   mapping_dict, user_id, Tail(messages))

\* parse_sms_messages, lines 283-358: the table afterwards and the response.
parse_sms_messages(db, table, user_id, messages) ==
    LET acc == IngestAll([db |-> db, parsed_transactions |-> <<>>, failed_count |-> 0],
                         mappings(table, user_id), user_id, messages)
    IN  [db |-> acc.db,
         response |-> [kind |-> "SMSParseResponse",
                       parsed_count |-> Len(acc.parsed_transactions),
                       failed_count |-> acc.failed_count,
                       transactions |-> acc.parsed_transactions]]

\* Lines 201-206 and 266-271: the places of the rows with this id that the
\* user owns.
OwnedAt(db, user_id, transaction_id) ==
    {i \in 1..Len(db) : db[i].id = transaction_id /\ db[i].user_id = user_id}

NotFound == [kind |-> "HTTPException", status_code |-> 404]

\* create_transaction, lines 78-106: the row of the body, verified, with the
\* default confidence_score 1.0 (in tenths); the commit fails on a reference
\* that is already stored and the request ends with status 500.
create_transaction(db, user_id, transaction_data) ==
    LET transaction ==
            [id |-> NextId(db),
             user_id |-> user_id,
             transaction_type |-> transaction_data.transaction_type,
             category |-> transaction_data.category,
             need_want |-> transaction_data.need_want,
             amount |-> transaction_data.amount,
             description |-> transaction_data.description,
             counterparty |-> transaction_data.counterparty,
             counterparty_name |-> transaction_data.counterparty_name,
             reference |-> transaction_data.reference,
             raw_sms |-> transaction_data.raw_sms,
             transaction_date |-> transaction_data.transaction_date,
             confidence_score |-> 10,
             is_verified |-> TRUE]
        c == commit(db, transaction)
    IN  IF c.ok
        THEN [db |-> c.db,
              response |-> [kind |-> "TransactionResponse", status_code |-> 201,
                            transaction |-> transaction]]
        ELSE [db |-> db,
              response |-> [kind |-> "IntegrityError", status_code |-> 500]]

\* Lines 214-224: the fields given replace those of the row.
UpdatedRow(transaction, update_data) ==
    [transaction EXCEPT
        !.category = IF update_data.category # "None" THEN update_data.category ELSE @,
        !.need_want = IF update_data.need_want # "None" THEN update_data.need_want ELSE @,
        !.description = IF update_data.description # "None"
                        THEN update_data.description ELSE @,
        !.counterparty_name = IF update_data.counterparty_name # "None"
                              THEN update_data.counterparty_name ELSE @,
        !.is_verified = IF update_data.is_verified.kind = "bool"
                        THEN update_data.is_verified.v ELSE @]

\* Lines 229-252: with a category in the body and a counterparty on the row,
\* the mapping of the user for the counterparty takes the category of the row
\* (and its need_want when the body holds one), or is created from the row.
MappingsAfterUpdate(table, user_id, transaction, update_data) ==
    IF update_data.category = "None" \/ transaction.counterparty \in {None, <<>>}
    THEN table
    ELSE LET found == {m \in mappings(table, user_id) :
                           m.counterparty = transaction.counterparty}
         IN  IF found # {}
             THEN LET existing_mapping == CHOOSE m \in found : TRUE
                  IN  (table \ {existing_mapping}) \cup
                      {[existing_mapping EXCEPT
                           !.category = transaction.category,
                           !.need_want = IF update_data.need_want # "None"
                                         THEN transaction.need_want ELSE @]}
             ELSE table \cup
                  {[user_id |-> user_id,
                    counterparty |-> transaction.counterparty,
                    display_name |-> transaction.counterparty_name,
                    category |-> transaction.category,
                    need_want |-> transaction.need_want]}

\* update_transaction, lines 191-254.
update_transaction(db, table, user_id, transaction_id, update_data) ==
    LET at == OwnedAt(db, user_id, transaction_id)
    IN  IF at = {} THEN [db |-> db, table |-> table, response |-> NotFound]
        ELSE LET i == CHOOSE k \in at : TRUE
                 transaction == UpdatedRow(db[i], update_data)
             IN  [db |-> [db EXCEPT ![i] = transaction],
                  table |-> MappingsAfterUpdate(table, user_id, transaction, update_data),
                  response |-> [kind |-> "TransactionResponse", status_code |-> 200,
                                transaction |-> transaction]]

\* delete_transaction, lines 257-280.
delete_transaction(db, user_id, transaction_id) ==
    LET at == OwnedAt(db, user_id, transaction_id)
    IN  IF at = {} THEN [db |-> db, response |-> NotFound]
        ELSE [db |-> SelectSeq(db, LAMBDA r : r.id # transaction_id),
              response |-> [kind |-> "NoContent", status_code |-> 204]]

\* create_counterparty_mapping, lines 374-410: the mapping of the user for the
\* counterparty is replaced or created.
create_counterparty_mapping(table, user_id, mapping_data) ==
    {m \in table : ~(m.user_id = user_id /\ m.counterparty = mapping_data.counterparty)}
        \cup {[user_id |-> user_id,
               counterparty |-> mapping_data.counterparty,
               display_name |-> mapping_data.display_name,
               category |-> mapping_data.category,
               need_want |-> mapping_data.need_want]}

InitIngest ==
    /\ store = <<>>
    /\ counterparty_mappings = {}
    /\ edits = 0
    /\ requests = 0
    /\ request = NotRun
    /\ response = NotRun
    /\ batchParsed = NotRun
    /\ IdleParser /\ IdleDaily /\ IdlePredict /\ IdleSeq /\ IdleScale
    /\ IdlePrep /\ IdleGoal

\* POST /transactions/parse-sms by one user.
ParseSms(user_id, messages) ==
    /\ requests < MaxRequests
    /\ requests' = requests + 1
    /\ request' = [kind |-> "parse-sms", user_id |-> user_id, messages |-> messages]
    /\ store' = parse_sms_messages(store, counterparty_mappings, user_id, messages).db
    /\ response' = parse_sms_messages(store, counterparty_mappings, user_id,
                                      messages).response
    /\ UNCHANGED <<counterparty_mappings, edits, batchParsed>>
    /\ UNCHANGED <<parserVars, dailyVars, predictVars, seqVars, scaleVars,
                   prepVars, goalVars>>

\* POST /transactions by one user.
CreateTransaction(user_id, transaction_data) ==
    /\ edits < MaxEdits
    /\ edits' = edits + 1
    /\ request' = [kind |-> "create", user_id |-> user_id, body |-> transaction_data]
    /\ store' = create_transaction(store, user_id, transaction_data).db
    /\ response' = create_transaction(store, user_id, transaction_data).response
    /\ UNCHANGED <<counterparty_mappings, requests, batchParsed>>
    /\ UNCHANGED <<parserVars, dailyVars, predictVars, seqVars, scaleVars,
                   prepVars, goalVars>>

\* PATCH /transactions/{transaction_id} by one user.
UpdateTransaction(user_id, transaction_id, update_data) ==
    /\ edits < MaxEdits
    /\ edits' = edits + 1
    /\ request' = [kind |-> "update", user_id |-> user_id,
                   transaction_id |-> transaction_id, body |-> update_data]
    /\ LET r == update_transaction(store, counterparty_mappings, user_id,
                                   transaction_id, update_data)
       IN  /\ store' = r.db
           /\ counterparty_mappings' = r.table
           /\ response' = r.response
    /\ UNCHANGED <<requests, batchParsed>>
    /\ UNCHANGED <<parserVars, dailyVars, predictVars, seqVars, scaleVars,
                   prepVars, goalVars>>

\* DELETE /transactions/{transaction_id} by one user.
DeleteTransaction(user_id, transaction_id) ==
    /\ edits < MaxEdits
    /\ edits' = edits + 1
    /\ request' = [kind |-> "delete", user_id |-> user_id,
                   transaction_id |-> transaction_id]
    /\ store' = delete_transaction(store, user_id, transaction_id).db
    /\ response' = delete_transaction(store, user_id, transaction_id).response
    /\ UNCHANGED <<counterparty_mappings, requests, batchParsed>>
    /\ UNCHANGED <<parserVars, dailyVars, predictVars, seqVars, scaleVars,
                   prepVars, goalVars>>

\* POST /transactions/mappings/ by one user.
CreateMapping(user_id, mapping_data) ==
    /\ edits < MaxEdits
    /\ edits' = edits + 1
    /\ request' = [kind |-> "mapping", user_id |-> user_id, body |-> mapping_data]
    /\ counterparty_mappings' =
           create_counterparty_mapping(counterparty_mappings, user_id, mapping_data)
    /\ response' = [kind |-> "CounterpartyMappingResponse", status_code |-> 201,
                    mapping |-> mapping_data]
    /\ UNCHANGED <<store, requests, batchParsed>>
    /\ UNCHANGED <<parserVars, dailyVars, predictVars, seqVars, scaleVars,
                   prepVars, goalVars>>

\* The ids a request can name: those of the rows and the next one.
TransactionIds == 1..NextId(store)

NextIngest ==
    \/ \E user_id \in Users, messages \in Batches : ParseSms(user_id, messages)
    \/ \E user_id \in Users, transaction_data \in TransactionCreateInputs :
           CreateTransaction(user_id, transaction_data)
    \/ \E user_id \in Users, transaction_id \in TransactionIds,
          update_data \in TransactionUpdateInputs :
           UpdateTransaction(user_id, transaction_id, update_data)
    \/ \E user_id \in Users, transaction_id \in TransactionIds :
           DeleteTransaction(user_id, transaction_id)
    \/ \E user_id \in Users, mapping_data \in MappingInputs :
           CreateMapping(user_id, mapping_data)

SpecIngest == InitIngest /\ [][NextIngest]_vars

\* A list of messages about to be handed to batch_parse_sms.
InitBatch ==
    /\ request \in {[kind |-> "batch_parse_sms", messages |-> messages] :
                        messages \in ServiceBatches}
    /\ batchParsed = NotRun
    /\ store = <<>>
    /\ counterparty_mappings = {}
    /\ edits = 0
    /\ requests = 0
    /\ response = NotRun
    /\ IdleParser /\ IdleDaily /\ IdlePredict /\ IdleSeq /\ IdleScale
    /\ IdlePrep /\ IdleGoal

\* The call of batch_parse_sms.
BatchParse ==
    /\ batchParsed = NotRun
    /\ batchParsed' = batch_parse_sms(request.messages)
    /\ UNCHANGED <<store, counterparty_mappings, edits, requests, request, response>>
    /\ UNCHANGED <<parserVars, dailyVars, predictVars, seqVars, scaleVars,
                   prepVars, goalVars>>

NextBatch == BatchParse

SpecBatch == InitBatch /\ [][NextBatch]_vars

\* The references held by the rows; a NULL reference is none.
References(db) == {db[i].reference : i \in 1..Len(db)} \ {None}

\* C21: no two stored transactions share a reference; a parse-sms batch
\* leaves the rows already stored as they are, every row it adds carries the
\* reference of its message, and a message whose reference is already stored,
\* by an earlier request or earlier in the same batch, adds no row.
C21_NoDuplicateReference ==
    [][/\ \A i, j \in 1..Len(store') :
              (i # j /\ store'[i].reference # None)
                  => store'[i].reference # store'[j].reference
       /\ requests' = requests + 1 =>
              /\ Len(store') >= Len(store)
              /\ SubSeq(store', 1, Len(store)) = store
              /\ \A k \in (Len(store) + 1)..Len(store') :
                     /\ Parsed[store'[k].raw_sms].kind = "record"
                     /\ store'[k].reference = Parsed[store'[k].raw_sms].reference
                     /\ \A i \in 1..(k - 1) :
                            store'[i].reference # store'[k].reference
              /\ \A n \in 1..Len(request'.messages) :
                     LET p == Parsed[request'.messages[n]]
                     IN  (p.kind = "record" /\ p.reference \in References(store))
                             => \A k \in (Len(store) + 1)..Len(store') :
                                    store'[k].reference # p.reference]_vars

\* A second parse-sms request of two messages that both carry the reference of
\* the one stored row: nothing was added.
C21_Witness ==
    /\ requests = 2
    /\ request.kind = "parse-sms"
    /\ Len(store) = 1
    /\ Len(request.messages) = 2
    /\ \A i \in 1..2 :
           /\ Parsed[request.messages[i]].kind = "record"
           /\ Parsed[request.messages[i]].reference = store[1].reference
    /\ response.parsed_count = 0

\* The messages of a batch that parse to a record.
WithoutFailed(messages) == SelectSeq(messages, LAMBDA m : Parsed[m].kind = "record")

\* C22: a message of a batch that cannot be parsed does not keep the later
\* messages from being parsed: batch_parse_sms returns what it returns for the
\* batch without the failed messages.
C22_BatchIsolation ==
    batchParsed # NotRun =>
        batchParsed = batch_parse_sms(WithoutFailed(request.messages))

\* A label REF, TXN or ID standing on its own before a value: not inside a
\* word, and set off from the value by a colon or white space.
StandaloneRefAt(text, i) ==
    /\ RefMatchesAt(text, i)
    /\ i = 1 \/ text[i - 1] \notin UpperAlnum
    /\ RefValueStart(text, i) > i + Len(RefLabelAt(text, i))

HasReferenceField(sms_text) ==
    LET text == StrUpper(Strip(sms_text))
    IN  \E i \in 1..Len(text) : StandaloneRefAt(text, i)

\* C28: a message without a transaction-reference field that parses is never
\* dropped as the duplicate of a message with another text: after the request
\* the table holds a row made from its text.
C28_ReferenceIdentifiesMessage ==
    request # NotRun /\ request.kind = "parse-sms" =>
        \A i \in 1..Len(request.messages) :
            LET m == request.messages[i]
            IN  Parsed[m].kind = "record" /\ ~HasReferenceField(m) =>
                    \E k \in 1..Len(store) : store[k].raw_sms = m

\* The rows of one user.
OwnRows(db, user_id) == SelectSeq(db, LAMBDA r : r.user_id = user_id)

\* The texts of the rows.
RawTexts(rows) == {rows[k].raw_sms : k \in 1..Len(rows)}

\* C29: the messages of a request that become rows of the user are those that
\* would have become rows had the table held the user's own rows only.
C29_PerUserIsolation ==
    [][requests' = requests + 1 =>
           RawTexts(response'.transactions)
               = RawTexts(parse_sms_messages(OwnRows(store, request'.user_id),
                                             counterparty_mappings,
                                             request'.user_id,
                                             request'.messages).response.transactions)]_vars

-----------------------------------------------------------------------------
(* Savings goals: backend/app/api/v1/endpoints/savings_goals.py.  One goal  *)
(* of one user, its amounts in whole francs; the fields kept are those the  *)
(* status depends on.                                                       *)

MaxAmount == 3
MaxContributions == 2

\* models/savings_goal.py, lines 24-29.
GoalStatus == {"active", "paused", "completed", "cancelled"}

\* SavingsGoalCreate, schemas/savings_goal.py line 31: target_amount > 0.
CreateInputs == 1..MaxAmount

\* SavingsGoalUpdate, lines 46 and 50: any target_amount or none, any status
\* or none.
UpdateInputs ==
    [target_amount : {[kind |-> "none"]} \cup {[kind |-> "float", v |-> v] : v \in 0..MaxAmount},
     status : {"None"} \cup GoalStatus]

\* GoalContributionCreate, line 71: amount > 0.
ContributionInputs == 1..MaxAmount

\* create_savings_goal, lines 87-99, with the column defaults of the model
\* (current_amount 0.0, status ACTIVE, completed_at NULL).
create_savings_goal(target_amount) ==
    [kind |-> "goal", target_amount |-> target_amount, current_amount |-> 0,
     status |-> "active", completed_at |-> NoDate]

\* update_savings_goal, lines 205-220: the fields given replace those of the
\* goal.
update_savings_goal(g, update_data) ==
    LET g1 == IF update_data.target_amount.kind = "none" THEN g
              ELSE [g EXCEPT !.target_amount = update_data.target_amount.v]
        g2 == IF update_data.status = "None" THEN g1
              ELSE [g1 EXCEPT !.status = update_data.status]
    IN  IF update_data.status = "completed" THEN [g2 EXCEPT !.completed_at = "now"]
        ELSE g2

\* contribute_to_goal, lines 291-311, with a goal that exists: refused with
\* status 400 unless the goal is ACTIVE.
ContributionAccepted(g) == g.status = "active"

\* Lines 306-311: the goal after an accepted contribution.
GoalAfterContribution(g, amount) ==
    LET current_amount == g.current_amount + amount
    IN  IF current_amount >= g.target_amount
        THEN [g EXCEPT !.current_amount = current_amount,
                       !.status = "completed",
                       !.completed_at = "now"]
        ELSE [g EXCEPT !.current_amount = current_amount]

InitGoal ==
    /\ goal = NotRun
    /\ contributions = <<>>
    /\ IdleParser /\ IdleDaily /\ IdlePredict /\ IdleSeq /\ IdleScale
    /\ IdlePrep /\ IdleIngest

\* POST /savings-goals.
CreateGoal(target_amount) ==
    /\ goal = NotRun
    /\ goal' = create_savings_goal(target_amount)
    /\ UNCHANGED contributions
    /\ UNCHANGED <<parserVars, dailyVars, predictVars, seqVars, scaleVars,
                   prepVars, ingestVars>>

\* PATCH /savings-goals/{goal_id}; 404 while the goal does not exist.
UpdateGoal(update_data) ==
    /\ goal' = IF goal = NotRun THEN goal ELSE update_savings_goal(goal, update_data)
    /\ UNCHANGED contributions
    /\ UNCHANGED <<parserVars, dailyVars, predictVars, seqVars, scaleVars,
                   prepVars, ingestVars>>

\* POST /savings-goals/{goal_id}/contribute; 404 while the goal does not exist,
\* 400 while it is not ACTIVE.
Contribute(amount) ==
    /\ Len(contributions) < MaxContributions
    /\ IF goal # NotRun /\ ContributionAccepted(goal)
       THEN /\ goal' = GoalAfterContribution(goal, amount)
            /\ contributions' = Append(contributions, amount)
       ELSE UNCHANGED <<goal, contributions>>
    /\ UNCHANGED <<parserVars, dailyVars, predictVars, seqVars, scaleVars,
                   prepVars, ingestVars>>

\* DELETE /savings-goals/{goal_id}, lines 246-267; 404 while the goal does
\* not exist.  The contributions of the goal go with it (models/savings_goal.py,
\* cascade of SavingsGoal.contributions).
DeleteGoal ==
    /\ goal # NotRun
    /\ goal' = NotRun
    /\ contributions' = <<>>
    /\ UNCHANGED <<parserVars, dailyVars, predictVars, seqVars, scaleVars,
                   prepVars, ingestVars>>

NextGoal ==
    \/ \E target_amount \in CreateInputs : CreateGoal(target_amount)
    \/ \E update_data \in UpdateInputs : UpdateGoal(update_data)
    \/ \E amount \in ContributionInputs : Contribute(amount)
    \/ DeleteGoal

SpecGoal == InitGoal /\ [][NextGoal]_vars

\* C30: after any sequence of create, contribute and update operations an
\* ACTIVE goal has current_amount < target_amount, the goal is COMPLETED with
\* completed_at set exactly when current_amount has reached target_amount, and
\* a contribution is recorded only for a goal that was ACTIVE.
C30_GoalStatusInvariant ==
    [][/\ goal' # NotRun =>
              /\ goal'.status = "active" => goal'.current_amount < goal'.target_amount
              /\ (goal'.status = "completed" /\ goal'.completed_at # NoDate)
                     <=> goal'.current_amount >= goal'.target_amount
       /\ Len(contributions') > Len(contributions) =>
              goal # NotRun /\ goal.status = "active"]_vars

====
